---------------------------- MODULE Spec2Model ----------------------------
(***************************************************************************)
(* Model of SimuladorBuracoNegro (C++): the relativistic ray tracer, its   *)
(* RK4 geodesic integrator, the Schwarzschild metric, the accretion disk   *)
(* and the simulator front end.                                            *)
(*                                                                         *)
(* The program computes in IEEE doubles.  The model computes in a binary   *)
(* floating-point format of its own: a value is a pair <<m, e>> standing   *)
(* for m * 2^e with a signed 30-bit mantissa (2^29 <= |m| < 2^30), the     *)
(* exponent range of a double, truncating rounding, and the three special  *)
(* values NaN, +Inf and -Inf with the IEEE rules (x/0, 0*Inf, Inf-Inf,     *)
(* comparisons with NaN are false).  Every formula is evaluated in the     *)
(* order the source evaluates it.                                          *)
(***************************************************************************)
EXTENDS Integers, Sequences, FiniteSets, TLC

(***************************************************************************)
(* Floating-point arithmetic (the double arithmetic of the C++ code).      *)
(***************************************************************************)
M15 == 2 ^ 15
M29 == 2 ^ 29
M30 == 2 ^ 30
EMax == 1023 - 29
EMin == -1075 - 29

P2Tab == << 1, 2, 4, 8, 16, 32, 64, 128, 256, 512, 1024, 2048, 4096, 8192,
            16384, 32768, 65536, 131072, 262144, 524288, 1048576, 2097152,
            4194304, 8388608, 16777216, 33554432, 67108864, 134217728,
            268435456, 536870912, 1073741824 >>
P2(d) == P2Tab[d + 1]

Zero == << 0, 0 >>
NaN == << 0, 1 >>
PInf == << 1, 0 >>
NInf == << -1, 0 >>

IsNaN(x) == x[1] = 0 /\ x[2] = 1
IsInf(x) == x[1] = 1 \/ x[1] = -1
IsZero(x) == x[1] = 0 /\ x[2] = 0
IsFinite(x) == ~IsNaN(x) /\ ~IsInf(x)
\* The mantissa of zero, NaN and the infinities; every other value is finite
\* and not zero.
MantissaEspecial == { -1, 0, 1 }

\* A value: the pair of a mantissa and an exponent.
Float == Int \X Int
Sgn(x) == IF x[1] < 0 THEN -1 ELSE 1
AbsI(n) == IF n < 0 THEN -n ELSE n

\* The number of bits by which a magnitude 0 < m < 2^30 falls short of 30.
Falta(m) ==
    IF m >= M29 THEN 0
    ELSE IF m >= M29 \div 2 THEN 1
    ELSE Cardinality({ j \in 1..29 : m < P2(j) })

\* s * m * 2^e for a magnitude 0 <= m < 2^31, normalised; overflow gives an
\* infinity and underflow gives zero, as in a double.
Infinito(s) == IF s < 0 THEN NInf ELSE PInf
Ajusta(s, m, e, k) ==
    IF e - k > EMax THEN Infinito(s)
    ELSE IF e - k < EMin THEN Zero
    ELSE << s * m * P2(k), e - k >>
Norm(s, m, e) ==
    IF m = 0 THEN Zero
    ELSE IF m >= M30
         THEN (IF e + 1 > EMax THEN Infinito(s) ELSE << s * (m \div 2), e + 1 >>)
    ELSE Ajusta(s, m, e, Falta(m))

FromInt(n) == Norm(IF n < 0 THEN -1 ELSE 1, AbsI(n), 0)

Neg[x \in Float] == IF IsNaN(x) THEN NaN ELSE IF IsZero(x) THEN Zero ELSE << -x[1], x[2] >>
Abs[x \in Float] == IF x[1] < 0 THEN << -x[1], x[2] >> ELSE x

\* The product of two magnitudes 2^29 <= a, b < 2^30, cut to its 30 leading
\* bits: with a = ah * 2^15 + al and b = bh * 2^15 + bl the product is
\* alto * 2^30 + meio * 2^15 + (al * bl) % 2^15.
MulAlto(a, b) == (a \div M15) * (b \div M15)
MulMeio(a, b) ==
    (a \div M15) * (b % M15) + (a % M15) * (b \div M15)
    + (((a % M15) * (b % M15)) \div M15)
MulCorta(s, alto, meio, e) ==
    IF alto + (meio \div M15) >= M29
    THEN Ajusta(s, alto + (meio \div M15), e, 0)
    ELSE Ajusta(s, 2 * alto + (meio \div (M15 \div 2)), e - 1, 0)
MulNormal(s, a, b, e) == MulCorta(s, MulAlto(a, b), MulMeio(a, b), e)
MulEspecial(x, y) ==
    IF IsNaN(x) \/ IsNaN(y) THEN NaN
    ELSE IF IsInf(x) \/ IsInf(y)
         THEN (IF IsZero(x) \/ IsZero(y) THEN NaN
               ELSE IF Sgn(x) * Sgn(y) < 0 THEN NInf ELSE PInf)
    ELSE Zero
Mul[x \in Float, y \in Float] ==
    IF y[1] \in MantissaEspecial THEN MulEspecial(x, y)
    ELSE IF x[1] \in MantissaEspecial THEN MulEspecial(x, y)
    ELSE MulNormal(Sgn(x) * Sgn(y), AbsI(x[1]), AbsI(y[1]), x[2] + y[2] + 30)

\* The sum of hi and lo, the exponent of hi being larger by d >= 0.
AddMantissas(s, e) == Norm(IF s < 0 THEN -1 ELSE 1, AbsI(s), e)
AddNormal(hi, lo, d) ==
    IF d > 30 THEN hi
    ELSE AddMantissas(hi[1] + Sgn(lo) * (AbsI(lo[1]) \div P2(d)), hi[2])
AddEspecial(x, y) ==
    IF IsNaN(x) \/ IsNaN(y) THEN NaN
    ELSE IF IsInf(x) THEN (IF IsInf(y) /\ x[1] # y[1] THEN NaN ELSE x)
    ELSE IF IsInf(y) THEN y
    ELSE IF IsZero(x) THEN y
    ELSE x
Add[x \in Float, y \in Float] ==
    IF y[1] \in MantissaEspecial THEN AddEspecial(x, y)
    ELSE IF x[1] \in MantissaEspecial THEN AddEspecial(x, y)
    ELSE IF x[2] >= y[2] THEN AddNormal(x, y, x[2] - y[2])
    ELSE AddNormal(y, x, y[2] - x[2])

Sub[x \in Float, y \in Float] == Add[x, Neg[y]]

\* Comparisons: false when an operand is NaN.  A magnitude is compared by
\* its exponent first, an infinity above and zero below every other.
Grandeza(x) ==
    IF IsInf(x) THEN << 5000, 0 >>
    ELSE IF x[1] = 0 THEN << -5000, 0 >>
    ELSE << x[2], AbsI(x[1]) >>
GrandezaMenor(a, b) == a[1] < b[1] \/ (a[1] = b[1] /\ a[2] < b[2])
Lt[x \in Float, y \in Float] ==
    /\ ~IsNaN(x)
    /\ ~IsNaN(y)
    /\ IF x[1] < 0 THEN y[1] >= 0 \/ GrandezaMenor(Grandeza(y), Grandeza(x))
       ELSE y[1] > 0 /\ GrandezaMenor(Grandeza(x), Grandeza(y))
Gt[x \in Float, y \in Float] == Lt[y, x]
Le[x \in Float, y \in Float] == ~IsNaN(x) /\ ~IsNaN(y) /\ ~Lt[y, x]
Ge[x \in Float, y \in Float] == Le[y, x]

Two == << M29, -28 >>

\* The quotient of two magnitudes 2^29 <= a, b < 2^30, cut to its leading
\* bits, by long division in base 2^15: DivDigito is one digit of the
\* quotient of r * 2^15 by b for a remainder r < b, estimated from the
\* leading digit of b and corrected, and the remainder it leaves.
DivEstimativa(r, bh) == IF r \div bh > M15 - 1 THEN M15 - 1 ELSE r \div bh
DivCorrige(q, resto, b) ==
    IF resto >= 0 THEN << q, resto >>
    ELSE IF resto + b >= 0 THEN << q - 1, resto + b >>
    ELSE << q - 2, resto + 2 * b >>
DivResto(r, b, q) ==
    DivCorrige(q, (r - q * (b \div M15)) * M15 - q * (b % M15), b)
DivDigito(r, b) == DivResto(r, b, DivEstimativa(r, b \div M15))
DivSegundo(s, q0, d1, b, e) ==
    Norm(s, q0 * M30 + d1[1] * M15 + DivDigito(d1[2], b)[1], e)
DivNormal(s, a, b, e) ==
    DivSegundo(s, IF a >= b THEN 1 ELSE 0,
               DivDigito(IF a >= b THEN a - b ELSE a, b), b, e)
DivEspecial(x, y) ==
    IF IsNaN(x) \/ IsNaN(y) THEN NaN
    ELSE IF IsInf(x)
         THEN (IF IsInf(y) THEN NaN
               ELSE IF Sgn(x) * Sgn(y) < 0 THEN NInf ELSE PInf)
    ELSE IF IsInf(y) THEN Zero
    ELSE IF IsZero(y)
         THEN (IF IsZero(x) THEN NaN
               ELSE IF x[1] < 0 THEN NInf ELSE PInf)
    ELSE Zero
Div[x \in Float, y \in Float] ==
    IF x[1] \in MantissaEspecial THEN DivEspecial(x, y)
    ELSE IF y[1] \in MantissaEspecial THEN DivEspecial(x, y)
    ELSE DivNormal(Sgn(x) * Sgn(y), AbsI(x[1]), AbsI(y[1]), x[2] - y[2] - 30)

\* x * 2^k
Ldexp[x \in Float, k \in Int] ==
    IF IsNaN(x) \/ IsInf(x) \/ IsZero(x) THEN x
    ELSE IF x[2] + k > EMax THEN (IF x[1] < 0 THEN NInf ELSE PInf)
    ELSE IF x[2] + k < EMin THEN Zero
    ELSE << x[1], x[2] + k >>

One == << M29, -29 >>
Half == << M29, -30 >>

\* n * 10^k, the value of a decimal literal of the source.
E9 == FromInt(10 ^ 9)
E18 == Mul[E9, E9]
E27 == Mul[E18, E9]
E36 == Mul[E27, E9]
E45 == Mul[E36, E9]
Pow10Tab == << One, E9, E18, E27, E36, E45 >>
Pow10(k) ==
    IF k <= 9 THEN FromInt(10 ^ k)
    ELSE Mul[Pow10Tab[(k \div 9) + 1], FromInt(10 ^ (k % 9))]
Dec(n, k) == IF k >= 0 THEN Mul[FromInt(n), Pow10(k)]
             ELSE Div[FromInt(n), Pow10(-k)]

\* std::sqrt: an integer Newton estimate of the mantissa's root, then one
\* Newton step in floating point.
ISqrtStep(g, m) == (g + (m \div g)) \div 2
Sqrt[x \in Float] ==
    IF IsNaN(x) THEN NaN
    ELSE IF IsZero(x) THEN Zero
    ELSE IF x[1] < 0 THEN NaN
    ELSE IF IsInf(x) THEN PInf
    ELSE LET odd == x[2] % 2 # 0
             m == IF odd THEN x[1] * 2 ELSE x[1]
             e == IF odd THEN x[2] - 1 ELSE x[2]
             g == ISqrtStep(ISqrtStep(ISqrtStep(M15, m), m), m)
             y0 == Norm(1, g, e \div 2)
         IN  Ldexp[Add[y0, Div[x, y0]], -1]

MaxF[x \in Float, y \in Float] == IF Lt[x, y] THEN y ELSE x   \* std::max(a, b): (a < b) ? b : a
MinF[x \in Float, y \in Float] == IF Lt[y, x] THEN y ELSE x   \* std::min(a, b): (b < a) ? b : a

\* M_PI and its multiples, to the precision of the mantissa.
MPI == << 843314856, -28 >>
MPI2 == Ldexp[MPI, -1]
DoisPI == Ldexp[MPI, 1]

\* The nearest integer to a finite x, as a float, and its residue modulo 4.
Nearest(x) ==
    IF IsZero(x) \/ x[2] <= -31 THEN << Zero, 0 >>
    ELSE IF x[2] >= 0 THEN << x, IF x[2] = 0 THEN x[1] % 4 ELSE 0 >>
    ELSE LET p == P2(-x[2])
             q == Sgn(x) * ((AbsI(x[1]) + (p \div 2)) \div p)
         IN  << FromInt(q), q % 4 >>

Inv6 == Div[One, FromInt(6)]
Inv12 == Div[One, FromInt(12)]
Inv20 == Div[One, FromInt(20)]
Inv30 == Div[One, FromInt(30)]
Inv42 == Div[One, FromInt(42)]
Inv56 == Div[One, FromInt(56)]
Inv72 == Div[One, FromInt(72)]
Inv90 == Div[One, FromInt(90)]
Inv110 == Div[One, FromInt(110)]

\* The Taylor polynomials of sine and cosine on [-pi/4, pi/4], z = r * r.
SinPoli(r, z) ==
    Mul[r, Sub[One, Mul[Mul[z, Inv6], Sub[One, Mul[Mul[z, Inv20],
           Sub[One, Mul[Mul[z, Inv42], Sub[One, Mul[Mul[z, Inv72],
           Sub[One, Mul[z, Inv110]]]]]]]]]]]
SinP(r) == SinPoli(r, Mul[r, r])
CosPoli(z) ==
    Sub[One, Mul[Ldexp[z, -1], Sub[One, Mul[Mul[z, Inv12],
        Sub[One, Mul[Mul[z, Inv30], Sub[One, Mul[Mul[z, Inv56],
        Sub[One, Mul[z, Inv90]]]]]]]]]]
CosP(r) == CosPoli(Mul[r, r])

\* std::sin, std::cos, std::tan: reduction by multiples of pi/2.  An argument
\* so large that the mantissa holds no fraction of a quarter turn reduces to 0.
ComSinal(negativo, v) == IF negativo THEN Neg[v] ELSE v
Quadrante(r, q) ==
    IF q % 2 = 0 THEN ComSinal(q = 2, SinP(r)) ELSE ComSinal(q = 3, CosP(r))
Limita(r0) == IF Gt[Abs[r0], One] THEN Zero ELSE r0
Reduzido(x, n, shift) ==
    Quadrante(Limita(Sub[x, Mul[n[1], MPI2]]), (n[2] + shift) % 4)
SinCos(x, shift) ==
    IF IsNaN(x) \/ IsInf(x) THEN NaN
    ELSE Reduzido(x, Nearest(Div[x, MPI2]), shift)
Sin[x \in Float] == SinCos(x, 0)
Cos[x \in Float] == SinCos(x, 1)
Tan[x \in Float] == Div[Sin[x], Cos[x]]

\* The integer part of a finite x with |x| < 2^30 (truncation toward zero).
TruncInt(x) ==
    IF IsZero(x) \/ x[2] <= -30 THEN 0
    ELSE IF x[2] >= 0 THEN x[1] * P2(x[2])
    ELSE Sgn(x) * (AbsI(x[1]) \div P2(-x[2]))

\* std::fmod(x, y) for y > 0: x - trunc(x/y) * y, which has the sign of x and
\* is smaller than y; a remainder the mantissa cannot resolve is 0.
FmodResto(x, y, res) ==
    IF Sgn(res) * Sgn(x) < 0 \/ Ge[Abs[res], Abs[y]] THEN Zero ELSE res
FmodQuociente(x, y, q) ==
    IF Lt[Abs[q], One] THEN x
    ELSE IF q[2] >= 0 THEN Zero
    ELSE FmodResto(x, y, Sub[x, Mul[FromInt(TruncInt(q)), y]])
Fmod[x \in Float, y \in Float] ==
    IF IsNaN(x) \/ IsNaN(y) \/ IsInf(x) \/ IsZero(y) THEN NaN
    ELSE IF IsInf(y) THEN x
    ELSE FmodQuociente(x, y, Div[x, y])

LN2 == Dec(693147180, -9)
RAIZ_MEIO == Dec(707106781, -9)
Inv3 == Div[One, FromInt(3)]
Inv5 == Div[One, FromInt(5)]
Inv7 == Div[One, FromInt(7)]
Inv9 == Div[One, FromInt(9)]
Inv11 == Div[One, FromInt(11)]

\* std::log: ln(f * 2^k) = k ln 2 + 2 atanh(z), z = (f - 1)/(f + 1), with f
\* in [0.7, 1.42) and w = z * z.
LnSerie(z, w) ==
    Mul[z, Add[One, Mul[w, Add[Inv3, Mul[w, Add[Inv5, Mul[w, Add[Inv7,
           Mul[w, Add[Inv9, Mul[w, Inv11]]]]]]]]]]]
LnAtanh(z) == LnSerie(z, Mul[z, z])
LnMantissa(f, k) ==
    Add[Mul[FromInt(k), LN2], Ldexp[LnAtanh(Div[Sub[f, One], Add[f, One]]), 1]]
LnNormalizado(x, pequeno) ==
    LnMantissa(<< x[1], IF pequeno THEN -29 ELSE -30 >>,
               IF pequeno THEN x[2] + 29 ELSE x[2] + 30)
Ln[x \in Float] ==
    IF IsNaN(x) THEN NaN
    ELSE IF IsZero(x) THEN NInf
    ELSE IF x[1] < 0 THEN NaN
    ELSE IF IsInf(x) THEN PInf
    ELSE LnNormalizado(x, Lt[<< x[1], -30 >>, RAIZ_MEIO])

\* std::exp: e^x = 2^k e^r with r = x - k ln 2, |r| <= ln(2)/2.
RECURSIVE ExpSerie(_, _, _)
ExpSerie(r, n, soma) ==
    IF n = 0 \/ IsNaN(soma) THEN soma
    ELSE ExpSerie(r, n - 1, Add[One, Mul[Div[r, FromInt(n)], soma]])
ExpReduzido(x, k) == Ldexp[ExpSerie(Sub[x, Mul[FromInt(k), LN2]], 10, One), k]
ExpQuociente(x, q) ==
    ExpReduzido(x, TruncInt(Add[q, IF q[1] < 0 THEN Neg[Half] ELSE Half]))
Exp[x \in Float] ==
    IF IsNaN(x) THEN NaN
    ELSE IF IsInf(x) THEN (IF x[1] < 0 THEN Zero ELSE PInf)
    ELSE IF Gt[x, FromInt(710)] THEN PInf
    ELSE IF Lt[x, FromInt(-746)] THEN Zero
    ELSE ExpQuociente(x, Div[x, LN2])

\* Whether a finite x is an integer, and whether that integer is odd.
IsInteiro(x) ==
    IsZero(x) \/ x[2] >= 0 \/ (x[2] > -30 /\ AbsI(x[1]) % P2(-x[2]) = 0)
IsImpar(x) ==
    ~IsZero(x) /\ x[2] <= 0 /\ x[2] > -30 /\ IsInteiro(x)
    /\ (AbsI(x[1]) \div P2(-x[2])) % 2 = 1

\* std::pow(x, y).
PowAbs(x, y) == Exp[Mul[y, Ln[x]]]
Pow[x \in Float, y \in Float] ==
    IF IsZero(y) THEN One
    ELSE IF IsNaN(x) \/ IsNaN(y) THEN NaN
    ELSE IF IsZero(x) THEN (IF y[1] < 0 THEN PInf ELSE Zero)
    ELSE IF IsInf(y)
         THEN (IF Lt[Abs[x], One] THEN (IF y[1] < 0 THEN PInf ELSE Zero)
               ELSE IF Gt[Abs[x], One] THEN (IF y[1] < 0 THEN Zero ELSE PInf)
               ELSE One)
    ELSE IF x[1] < 0 /\ ~IsInteiro(y) THEN NaN
    ELSE ComSinal(x[1] < 0 /\ IsImpar(y), PowAbs(Abs[x], y))

(***************************************************************************)
(* constantes.hpp                                                          *)
(***************************************************************************)
C == FromInt(299792458)
C2 == Mul[C, C]
G == Dec(667430, -16)
MASSA_SOL == Dec(198892, 25)

(***************************************************************************)
(* schwarzschild.hpp: MetricaSchwarzschild.  The metric object is its      *)
(* Schwarzschild radius rs_.                                               *)
(***************************************************************************)
MetricaSchwarzschild(massa_solar) ==
    LET massa_kg == Mul[massa_solar, MASSA_SOL]
        M == Div[Mul[G, massa_kg], C2]
    IN  Mul[Two, M]

christoffel_t_tr(rs, r) ==
    IF Le[r, rs] THEN Zero
    ELSE Div[rs, Mul[Mul[Two, r], Sub[r, rs]]]

christoffel_r_tt(rs, r) ==
    IF Le[r, rs] THEN Zero
    ELSE Div[Mul[rs, Sub[r, rs]], Mul[Mul[Mul[Two, r], r], r]]

christoffel_r_rr(rs, r) ==
    IF Le[r, rs] THEN Zero
    ELSE Div[Neg[rs], Mul[Mul[Two, r], Sub[r, rs]]]

christoffel_r_theta_theta(rs, r) == Neg[Sub[r, rs]]

VezesQuadrado(a, s) == Mul[Mul[a, s], s]
christoffel_r_phi_phi(rs, r, theta) ==
    VezesQuadrado(Neg[Sub[r, rs]], Sin[theta])

christoffel_theta_r_theta(r) == Div[One, r]

christoffel_theta_phi_phi(theta) == Mul[Neg[Sin[theta]], Cos[theta]]

christoffel_phi_r_phi(r) == Div[One, r]

christoffel_phi_theta_phi(theta) == Div[One, Tan[theta]]

\* The state is the array <<t, r, theta, phi, u_t, u_r, u_theta, u_phi>>
\* of EstadoGeodesica::como_array, indexed from 1.
derivadas_geodesica(rs, y) ==
    LET r == y[2]
        theta == y[3]
        u_t == y[5]
        u_r == y[6]
        u_theta == y[7]
        u_phi == y[8]
        d4 == Mul[Mul[Mul[FromInt(-2), christoffel_t_tr(rs, r)], u_t], u_r]
        d5 == Sub[Sub[Sub[Mul[Mul[Neg[christoffel_r_tt(rs, r)], u_t], u_t],
                          Mul[Mul[christoffel_r_rr(rs, r), u_r], u_r]],
                      Mul[Mul[christoffel_r_theta_theta(rs, r), u_theta], u_theta]],
                  Mul[Mul[christoffel_r_phi_phi(rs, r, theta), u_phi], u_phi]]
        d6 == Sub[Mul[Mul[Mul[FromInt(-2), christoffel_theta_r_theta(r)], u_r], u_theta],
                  Mul[Mul[christoffel_theta_phi_phi(theta), u_phi], u_phi]]
        d7 == Sub[Mul[Mul[Mul[FromInt(-2), christoffel_phi_r_phi(r)], u_r], u_phi],
                  Mul[Mul[Mul[Two, christoffel_phi_theta_phi(theta)], u_theta], u_phi]]
    IN  << u_t, u_r, u_theta, u_phi, d4, d5, d6, d7 >>

(***************************************************************************)
(* disco_acrecao.hpp: CorRGB and DiscoAcrecao.  A colour is a triple       *)
(* <<r, g, b>>.                                                            *)
(***************************************************************************)
SIGMA_SB == Dec(567037441, -16)

\* CorRGB::clamp and Pixel::clamp, one channel.
clamp(c) == MaxF[Zero, MinF[One, c]]
CorClamp(cor) == << clamp(cor[1]), clamp(cor[2]), clamp(cor[3]) >>
CorVezes(cor, s) == << Mul[cor[1], s], Mul[cor[2], s], Mul[cor[3], s] >>
Preto == << Zero, Zero, Zero >>

\* The constructor, lines 68-94, in the order of its assignments.
RaioISCO(rs, spin) ==
    IF Lt[spin, Dec(1, -2)] THEN Mul[FromInt(3), rs]
    ELSE Mul[rs, Sub[Add[FromInt(3), spin],
                     Sqrt[Mul[Sub[FromInt(3), spin], Add[One, spin]]]]]
DiscoCampos(massa_solar, taxa_acrecao_eddington, massa_bh, spin, rs) ==
    [ massa_bh_ |-> massa_bh,
      taxa_acrecao_ |-> Div[Mul[taxa_acrecao_eddington,
                                Mul[Dec(126, 36), massa_solar]],
                            Mul[Dec(1, -1), C2]],
      raio_interno_ |-> RaioISCO(rs, spin),
      raio_externo_ |-> Mul[FromInt(500), rs],
      spin_ |-> spin ]
DiscoDaMassa(massa_solar, taxa_acrecao_eddington, massa_bh, spin) ==
    DiscoCampos(massa_solar, taxa_acrecao_eddington, massa_bh, spin,
                Div[Mul[Mul[Two, G], massa_bh], C2])
DiscoAcrecao(massa_solar, taxa_acrecao_eddington, spin) ==
    DiscoDaMassa(massa_solar, taxa_acrecao_eddington,
                 Mul[massa_solar, MASSA_SOL],
                 MaxF[Zero, MinF[Dec(998, -3), spin]])

\* temperatura, lines 103-122; xx is the ratio raio / raio_interno_.
TemperaturaEstrela(disco) ==
    Pow[Div[Mul[Mul[Mul[FromInt(3), G], disco.massa_bh_], disco.taxa_acrecao_],
            Mul[Mul[Mul[FromInt(8), MPI], SIGMA_SB],
                Pow[disco.raio_interno_, FromInt(3)]]],
        Dec(25, -2)]
TemperaturaPerfil(disco, xx) ==
    Mul[Mul[TemperaturaEstrela(disco), Pow[xx, Dec(-75, -2)]],
        Pow[Sub[One, Sqrt[Div[One, xx]]], Dec(25, -2)]]
temperaturaAnelAberto(disco, raio) ==
    IF Le[raio, disco.raio_interno_] \/ Ge[raio, disco.raio_externo_] THEN Zero
    ELSE TemperaturaPerfil(disco, Div[raio, disco.raio_interno_])
temperatura(disco, raio) ==
    IF Lt[raio, disco.raio_interno_] \/ Gt[raio, disco.raio_externo_] THEN Zero
    ELSE TemperaturaPerfil(disco, Div[raio, disco.raio_interno_])

\* cor_corpo_negro, lines 140-177; t is T / 100.
CorVermelho(t) ==
    IF Le[t, FromInt(66)] THEN One
    ELSE Mul[Dec(1292936186, -9), Pow[Sub[t, FromInt(60)], Dec(-1332047592, -10)]]
CorVerde(t) ==
    IF Le[t, FromInt(66)]
    THEN Sub[Mul[Dec(390081578, -9), Ln[t]], Dec(631841443, -9)]
    ELSE Mul[Dec(1129890860, -9), Pow[Sub[t, FromInt(60)], Dec(-755148492, -10)]]
CorAzul(t) ==
    IF Ge[t, FromInt(66)] THEN One
    ELSE IF Le[t, FromInt(19)] THEN Zero
    ELSE Sub[Mul[Dec(543206789, -9), Ln[Sub[t, FromInt(10)]]], Dec(1196254089, -9)]
CorSemClamp(t) == << CorVermelho(t), CorVerde(t), CorAzul(t) >>
CorDaTemperatura(t) == CorClamp(<< CorVermelho(t), CorVerde(t), CorAzul(t) >>)
cor_corpo_negro(T) ==
    IF Le[T, Zero] THEN Preto ELSE CorDaTemperatura(Div[T, FromInt(100)])

RedshiftDoRaio(rs, raio) ==
    IF Le[raio, rs] THEN Zero ELSE Sqrt[Sub[One, Div[rs, raio]]]
fator_redshift(disco, raio) ==
    RedshiftDoRaio(Div[Mul[Mul[Two, G], disco.massa_bh_], C2], raio)

velocidade_kepleriana(disco, raio) == Sqrt[Div[Mul[G, disco.massa_bh_], raio]]

\* fator_doppler, lines 197-206; beta is v / c.
DopplerDeBeta(beta, cos_phi) ==
    Div[One, Mul[Div[One, Sqrt[Sub[One, Mul[beta, beta]]]],
                 Sub[One, Mul[beta, cos_phi]]]]
fator_doppler(disco, raio, angulo_observador) ==
    DopplerDeBeta(Div[velocidade_kepleriana(disco, raio), C],
                  Cos[angulo_observador])

\* intensidade_observada, lines 210-224.
IntensidadeDaTemperatura(disco, raio, angulo_obs, T) ==
    IF Le[T, Zero] THEN Preto
    ELSE CorVezes(cor_corpo_negro(T),
                  Pow[Mul[fator_doppler(disco, raio, angulo_obs),
                          fator_redshift(disco, raio)],
                      FromInt(4)])
intensidade_observada(disco, raio, angulo_obs) ==
    IntensidadeDaTemperatura(disco, raio, angulo_obs, temperatura(disco, raio))

no_disco(disco, raio) ==
    Ge[raio, disco.raio_interno_] /\ Le[raio, disco.raio_externo_]

(***************************************************************************)
(* integrador.hpp: IntegradorGeodesico.  The integrator object is the      *)
(* metric's rs_ and its step passo_.                                       *)
(***************************************************************************)
Six == FromInt(6)

\* for (i < 8) y[i] = arr[i] + c * k[i]
Avanca(arr, c, k) == [i \in 1..8 |-> Add[arr[i], Mul[c, k[i]]]]

\* novo[i] = arr[i] + passo * (k1[i] + 2*k2[i] + 2*k3[i] + k4[i]) / 6.0
Combina(a, passo, k1, k2, k3, k4) ==
    Add[a, Div[Mul[passo, Add[Add[Add[k1, Mul[Two, k2]], Mul[Two, k3]], k4]],
               Six]]

\* passo_rk4, lines 52-81.  ks holds the stages computed so far: k1 is
\* derivs(arr), k2 and k3 are derivs(arr + 0.5 * passo_ * k) of the stage
\* before, k4 is derivs(arr + passo_ * k3).
RECURSIVE Estagios(_, _, _, _)
Estagios(rs, arr, passo, ks) ==
    IF Len(ks) = 4 THEN ks
    ELSE Estagios(rs, arr, passo,
             Append(ks, derivadas_geodesica(rs,
                 IF Len(ks) = 0 THEN arr
                 ELSE Avanca(arr,
                             IF Len(ks) = 3 THEN passo ELSE Mul[Half, passo],
                             ks[Len(ks)]))))
Rk4Novo(arr, passo, ks) ==
    [i \in 1..8 |-> Combina(arr[i], passo, ks[1][i], ks[2][i], ks[3][i], ks[4][i])]
passo_rk4(rs, passo, estado) ==
    Rk4Novo(estado, passo, Estagios(rs, estado, passo, << >>))

(***************************************************************************)
(* ray_tracer.hpp: Pixel, Camera, ResultadoRaio and RayTracer.  A Pixel is *)
(* a triple <<r, g, b>>; the tracer object is a record of its fields.      *)
(***************************************************************************)
Pixel(r, g, b) == << r, g, b >>

Camera(r, theta, fov_h, fov_v, w, h) ==
    [ r_observador |-> r, theta_observador |-> theta,
      fov_horizontal |-> fov_h, fov_vertical |-> fov_v,
      largura |-> w, altura |-> h ]

CameraPadrao ==
    Camera(FromInt(100), Div[MPI, FromInt(3)], Div[MPI, FromInt(4)],
           Div[MPI, FromInt(4)], 800, 600)

passo_inicial_ == Dec(1, -1)
max_passos_ == 10000
tolerancia_horizonte_ == Dec(1001, -3)
usar_fundo_ == TRUE

RayTracerDe(rs, disco) ==
    [ rs_ |-> rs, disco_ |-> disco,
      camera_ |-> [CameraPadrao EXCEPT !.r_observador = Mul[FromInt(100), rs]],
      num_threads_ |-> 4 ]
RayTracer(massa_solar, taxa_eddington) ==
    RayTracerDe(MetricaSchwarzschild(massa_solar),
                DiscoAcrecao(massa_solar, taxa_eddington, Zero))

\* A setter that scales the radius stored before the call.
set_cameraAcumulado(rt, cam) ==
    [rt EXCEPT !.camera_ =
        [cam EXCEPT !.r_observador = Mul[rt.camera_.r_observador, rt.rs_]]]

\* Lines 124-127: camera_ = cam; camera_.r_observador *= rs_.
set_camera(rt, cam) ==
    [rt EXCEPT !.camera_ =
        [cam EXCEPT !.r_observador = Mul[cam.r_observador, rt.rs_]]]

set_threadsSemMinimo(rt, n) == [rt EXCEPT !.num_threads_ = n]
set_threads(rt, n) == [rt EXCEPT !.num_threads_ = IF 1 < n THEN n ELSE 1]

\* tracar_raio, lines 151-177: the photon's state at the observer.
RaizNula(f, termo1, termo2, termo3) ==
    Neg[Sqrt[MaxF[Zero, Mul[f, Sub[Sub[termo1, termo2], termo3]]]]]
EstadoDasVelocidades(r0, theta0, sin0, f, u_t, u_theta, u_phi) ==
    << Zero, r0, theta0, Zero, u_t,
       RaizNula(f, Mul[Mul[f, u_t], u_t],
                Mul[Mul[Mul[r0, r0], u_theta], u_theta],
                Mul[Mul[Mul[Mul[Mul[r0, r0], sin0], sin0], u_phi], u_phi]),
       u_theta, u_phi >>
EstadoDoObservador(r0, theta0, sin0, f, alfa, beta) ==
    EstadoDasVelocidades(r0, theta0, sin0, f, Div[One, f], Div[beta, r0],
                         Div[alfa, Mul[r0, sin0]])
EstadoInicial(rt, alfa, beta) ==
    EstadoDoObservador(rt.camera_.r_observador, rt.camera_.theta_observador,
                       Sin[rt.camera_.theta_observador],
                       Sub[One, Div[rt.rs_, rt.camera_.r_observador]],
                       alfa, beta)

\* The three termination tests of one loop iteration, lines 188, 199, 212.
AtingiuHorizonte(rt, estado) ==
    Lt[estado[2], Mul[rt.rs_, tolerancia_horizonte_]]

AtingiuDisco(rt, estado) ==
    /\ Lt[Abs[Sub[estado[3], MPI2]], Dec(1, -2)]
    /\ no_disco(rt.disco_, estado[2])

Escapou(rt, estado) ==
    Gt[estado[2], Mul[rt.camera_.r_observador, Two]]

\* Lines 233-240: the two reflections, applied one after the other.
ReflexaoNegativa(estado) ==
    IF Lt[estado[3], Zero]
    THEN [estado EXCEPT ![3] = Neg[estado[3]], ![7] = Neg[estado[7]]]
    ELSE estado

ReflexaoAcimaDePi(estado) ==
    IF Gt[estado[3], MPI]
    THEN [estado EXCEPT ![3] = Sub[DoisPI, estado[3]], ![7] = Neg[estado[7]]]
    ELSE estado

Reflexao(estado) == ReflexaoAcimaDePi(ReflexaoNegativa(estado))

\* Lines 225-240: the adaptive step, one RK4 step, the reflections.
PassoAdaptativo(rt, estado) ==
    Mul[passo_inicial_, Sqrt[Div[estado[2], rt.rs_]]]
Avancar(rt, estado) ==
    Reflexao(passo_rk4(rt.rs_, PassoAdaptativo(rt, estado), estado))

\* cor_fundo, lines 252-295.  The two for-loops over the grid lines are
\* recursions on the loop variable l.
PI12 == Div[MPI, FromInt(12)]
espessura == Dec(2, -2)

RECURSIVE LinhaLat(_, _)
LinhaLat(lat, l) ==
    IF ~Le[l, MPI2] THEN FALSE
    ELSE IF Lt[Abs[Sub[lat, l]], espessura] THEN TRUE
    ELSE LinhaLat(lat, Add[l, PI12])

LinhaLonEm(diff) ==
    Lt[diff, espessura] \/ Lt[Sub[DoisPI, diff], espessura]
RECURSIVE LinhaLon(_, _)
LinhaLon(lon, l) ==
    IF ~Lt[l, DoisPI] THEN FALSE
    ELSE IF LinhaLonEm(Abs[Sub[lon, l]]) THEN TRUE
    ELSE LinhaLon(lon, Add[l, PI12])

CorDaGrade(h) ==
    Pixel(Add[Dec(2, -1), Mul[Dec(3, -1), h]], Dec(1, -1),
          Add[Dec(4, -1), Mul[Dec(2, -1), Sub[One, h]]])
CorDaEstrela(brilho) ==
    Pixel(Add[Dec(1, -2), brilho], Add[Dec(1, -2), brilho],
          Add[Dec(3, -2), brilho])
Estrela(seed) ==
    Pow[Div[Add[Sin[Mul[seed, Dec(123456789, -4)]], One], Two], FromInt(100)]
CorDoCeu(theta, lon) ==
    IF LinhaLat(Sub[theta, MPI2], Neg[MPI2]) \/ LinhaLon(lon, Zero)
    THEN CorDaGrade(Div[lon, DoisPI])
    ELSE CorDaEstrela(Mul[Half,
             Estrela(Add[Mul[theta, FromInt(100)], Mul[lon, FromInt(57)]])])
PhiNormalizado(phi) == IF Lt[phi, Zero] THEN Add[phi, DoisPI] ELSE phi
cor_fundo(theta, phi) == CorDoCeu(theta, PhiNormalizado(Fmod[phi, DoisPI]))

\* The return statements of tracar_raio.  A ResultadoRaio is a record of the
\* fields the callers read.
Terminou(rt, estado) ==
    AtingiuHorizonte(rt, estado) \/ AtingiuDisco(rt, estado) \/ Escapou(rt, estado)

ResultadoIteracaoPassoSeguinte(rt, estado, i) ==
    IF AtingiuHorizonte(rt, estado)
    THEN [ destino |-> "HORIZONTE", passos |-> i + 1,
           cor |-> Pixel(Zero, Zero, Zero) ]
    ELSE IF AtingiuDisco(rt, estado)
    THEN [ destino |-> "DISCO", passos |-> i + 1,
           cor |-> intensidade_observada(rt.disco_, estado[2], estado[4]) ]
    ELSE [ destino |-> "INFINITO", passos |-> i + 1,
           cor |-> IF usar_fundo_ THEN cor_fundo(estado[3], estado[4])
                   ELSE Pixel(Dec(2, -2), Dec(2, -2), Dec(5, -2)) ]
ResultadoIteracaoEscapePrimeiro(rt, estado, i) ==
    IF AtingiuHorizonte(rt, estado)
    THEN [ destino |-> "HORIZONTE", passos |-> i, cor |-> Pixel(Zero, Zero, Zero) ]
    ELSE IF Escapou(rt, estado)
    THEN [ destino |-> "INFINITO", passos |-> i,
           cor |-> IF usar_fundo_ THEN cor_fundo(estado[3], estado[4])
                   ELSE Pixel(Dec(2, -2), Dec(2, -2), Dec(5, -2)) ]
    ELSE [ destino |-> "DISCO", passos |-> i,
           cor |-> intensidade_observada(rt.disco_, estado[2], estado[4]) ]
ResultadoIteracao(rt, estado, i) ==
    IF AtingiuHorizonte(rt, estado)
    THEN [ destino |-> "HORIZONTE", passos |-> i, cor |-> Pixel(Zero, Zero, Zero) ]
    ELSE IF AtingiuDisco(rt, estado)
    THEN [ destino |-> "DISCO", passos |-> i,
           cor |-> intensidade_observada(rt.disco_, estado[2], estado[4]) ]
    ELSE [ destino |-> "INFINITO", passos |-> i,
           cor |-> IF usar_fundo_ THEN cor_fundo(estado[3], estado[4])
                   ELSE Pixel(Dec(2, -2), Dec(2, -2), Dec(5, -2)) ]

ResultadoErroPreto ==
    [ destino |-> "ERRO",
      passos |-> IF max_passos_ > 0 THEN max_passos_ - 1 ELSE 0,
      cor |-> Pixel(Zero, Zero, Zero) ]
ResultadoErro ==
    [ destino |-> "ERRO",
      passos |-> IF max_passos_ > 0 THEN max_passos_ - 1 ELSE 0,
      cor |-> Pixel(One, Zero, One) ]

\* The for-loop of lines 184-241, from iteration i on.  An iteration that
\* passes the three tests and leaves the state as it was is repeated, with
\* the same outcome, until i reaches max_passos_: the loop then ends in the
\* statements after it.
RECURSIVE LoopDeIntegracao(_, _, _)
LoopSeguinte(rt, estado, novo, i) ==
    IF novo = estado THEN ResultadoErro
    ELSE LoopDeIntegracao(rt, novo, i + 1)
LoopDeIntegracao(rt, estado, i) ==
    IF ~(i < max_passos_) THEN ResultadoErro
    ELSE IF Terminou(rt, estado) THEN ResultadoIteracao(rt, estado, i)
    ELSE LoopSeguinte(rt, estado, Avancar(rt, estado), i)

tracar_raio(rt, alfa, beta) ==
    LoopDeIntegracao(rt, EstadoInicial(rt, alfa, beta), 0)

\* renderizar, lines 313-314: the impact parameters of pixel (i, j).
AlfaDoPixel(rt, i) ==
    Mul[Mul[Div[Sub[FromInt(i), Div[FromInt(rt.camera_.largura), Two]],
                FromInt(rt.camera_.largura)],
            rt.camera_.fov_horizontal],
        rt.camera_.r_observador]

BetaDoPixel(rt, j) ==
    Mul[Mul[Div[Sub[FromInt(j), Div[FromInt(rt.camera_.altura), Two]],
                FromInt(rt.camera_.altura)],
            rt.camera_.fov_vertical],
        rt.camera_.r_observador]

\* renderizar, lines 326-330: the block of rows [inicio, fim) of thread t.
LinhasPorThreadPorExcesso(altura, n_threads) ==
    (altura + n_threads - 1) \div n_threads
LinhasPorThread(altura, n_threads) == altura \div n_threads
InicioDoBloco(t, linhas_por_thread) == t * linhas_por_thread
FimDoBlocoAteOFim(t, n_threads, altura, linhas_por_thread) == altura
FimDoBloco(t, n_threads, altura, linhas_por_thread) ==
    IF t = n_threads - 1 THEN altura ELSE (t + 1) * linhas_por_thread

(***************************************************************************)
(* simulador.hpp: ConfiguracaoSimulacao and SimuladorBuracoNegro.          *)
(***************************************************************************)
ConfiguracaoSimulacao(massa, taxa, w, h, distancia, inclinacao, fov_graus, n) ==
    [ massa_solar |-> massa, taxa_eddington |-> taxa,
      largura |-> w, altura |-> h,
      distancia_observador |-> distancia,
      angulo_inclinacao |-> inclinacao, fov |-> fov_graus,
      num_threads |-> n,
      tipo |-> "SCHWARZSCHILD", spin |-> Zero, incluir_disco |-> TRUE,
      passo_integracao |-> Dec(1, -1), max_passos |-> 10000 ]

\* inicializar, lines 369-386: the ray tracer built from a configuration.
EmRadianos(graus) == Div[Mul[graus, MPI], FromInt(180)]
CameraDaConfiguracao(cfg) ==
    Camera(cfg.distancia_observador,
           EmRadianos(Sub[FromInt(90), cfg.angulo_inclinacao]),
           EmRadianos(cfg.fov),
           Div[Mul[EmRadianos(cfg.fov), FromInt(cfg.altura)], FromInt(cfg.largura)],
           cfg.largura, cfg.altura)
inicializarSemDisco(cfg) ==
    set_threads(set_camera(
        IF cfg.incluir_disco
        THEN RayTracer(cfg.massa_solar, cfg.taxa_eddington)
        ELSE [RayTracer(cfg.massa_solar, cfg.taxa_eddington)
                 EXCEPT !.disco_.raio_externo_ = Zero],
        CameraDaConfiguracao(cfg)), cfg.num_threads)
inicializar(cfg) ==
    set_threads(set_camera(RayTracer(cfg.massa_solar, cfg.taxa_eddington),
                           CameraDaConfiguracao(cfg)),
                cfg.num_threads)

(***************************************************************************)
(* The state.  config_ and ray_tracer_ are the simulator's fields; pc is   *)
(* the position of main; imagem, linhas_processadas_ and threads are the   *)
(* raster, the atomic row counter and the worker threads of one call of    *)
(* RayTracer::renderizar; escritas records, for every pixel, the threads   *)
(* that wrote it; arquivo is the output file, cerr the messages written to *)
(* the error stream, retorno the exit status of the process.  traco,       *)
(* resultado and pc_raio are the locals of one call of tracar_raio:        *)
(* the impact parameters, the photon's state, the loop counter i, the      *)
(* number of RK4 steps taken, the step passo_ of the call's integrator,    *)
(* the returned ResultadoRaio.  amostra is the input and the output of a   *)
(* function applied to sampled inputs.  argv is the sequence of options    *)
(* getopt_long has still to return to main, apenas_analise and             *)
(* modo_interativo are the flags main sets from them, diretorio_saida      *)
(* tells whether the output directory exists, cout is the sequence of the  *)
(* blocks of text written to the standard output.                          *)
(***************************************************************************)
VARIABLES config_, ray_tracer_, pc, imagem, escritas, linhas_processadas_,
          threads, arquivo, cerr, retorno, traco, resultado, pc_raio, amostra,
          argv, apenas_analise, modo_interativo, diretorio_saida, cout

varsMain == << argv, apenas_analise, modo_interativo, diretorio_saida, cout >>
varsSimulador == << config_, ray_tracer_, pc, imagem, escritas,
                    linhas_processadas_, threads, arquivo, cerr, retorno,
                    argv, apenas_analise, modo_interativo, diretorio_saida,
                    cout >>
varsRaio == << traco, resultado, pc_raio >>
vars == << config_, ray_tracer_, pc, imagem, escritas, linhas_processadas_,
           threads, arquivo, cerr, retorno, traco, resultado, pc_raio, amostra,
           argv, apenas_analise, modo_interativo, diretorio_saida, cout >>

Nenhum == "nenhum"

\* The parts of the state a specification does not use.
MainParado ==
    /\ argv = << >> /\ apenas_analise = FALSE /\ modo_interativo = FALSE
    /\ cout = << >>
SimuladorParado ==
    /\ pc = "parado" /\ imagem = << >> /\ escritas = << >>
    /\ linhas_processadas_ = 0 /\ threads = << >>
    /\ arquivo = Nenhum /\ cerr = << >> /\ retorno = Nenhum
    /\ MainParado
RaioParado == traco = Nenhum /\ resultado = Nenhum /\ pc_raio = "parado"
AmostraParada == amostra = Nenhum

(***************************************************************************)
(* One call of RayTracer::tracar_raio, one state per loop iteration.       *)
(***************************************************************************)
\* Lines 147-183: the call tracar_raio(alfa, beta) up to the loop.
InicioDoRaio(rt, alfa, beta) ==
    [ alfa |-> alfa, beta |-> beta, estado |-> EstadoInicial(rt, alfa, beta),
      i |-> 0, rk4 |-> 0, passo_ |-> passo_inicial_ ]

\* Lines 225-240 on the locals of a call: set_passo on the call's own
\* integrator, one RK4 step, the reflections, i++.
AvancaTracoPassoAnterior(rt, tr) ==
    [tr EXCEPT !.passo_ = PassoAdaptativo(rt, tr.estado),
               !.estado = Reflexao(passo_rk4(rt.rs_, tr.passo_, tr.estado)),
               !.i = tr.i + 1, !.rk4 = tr.rk4 + 1]
AvancaTraco(rt, tr) ==
    [tr EXCEPT !.passo_ = PassoAdaptativo(rt, tr.estado),
               !.estado = Avancar(rt, tr.estado),
               !.i = tr.i + 1, !.rk4 = tr.rk4 + 1]

\* Lines 184-222: an iteration whose tests end the call.
IteracaoRetorna ==
    /\ pc_raio = "loop"
    /\ traco.i < max_passos_
    /\ Terminou(ray_tracer_, traco.estado)
    /\ resultado' = ResultadoIteracao(ray_tracer_, traco.estado, traco.i)
    /\ pc_raio' = "retornou"
    /\ UNCHANGED << traco, amostra >>
    /\ UNCHANGED varsSimulador

\* Lines 184-241: an iteration that integrates one step.
IteracaoAvanca ==
    /\ pc_raio = "loop"
    /\ traco.i < max_passos_
    /\ ~Terminou(ray_tracer_, traco.estado)
    /\ traco' = AvancaTraco(ray_tracer_, traco)
    /\ UNCHANGED << resultado, pc_raio, amostra >>
    /\ UNCHANGED varsSimulador

\* Lines 243-245: the loop ran max_passos_ iterations.
LoopEsgotado ==
    /\ pc_raio = "loop"
    /\ ~(traco.i < max_passos_)
    /\ resultado' = ResultadoErro
    /\ pc_raio' = "retornou"
    /\ UNCHANGED << traco, amostra >>
    /\ UNCHANGED varsSimulador

NextRaio == IteracaoRetorna \/ IteracaoAvanca \/ LoopEsgotado

\* The configurations and pixels whose rays are traced.  A ray is the pixel
\* (i, j) of a w x h image: pixel (1, 1) of a 2 x 2 image is alfa = beta = 0.
MassaPadrao == FromInt(10)
MassaPequena == Dec(3385, -7)
TaxaPadrao == Dec(1, -1)
FovPadrao == FromInt(45)

Caso(massa, w, h, distancia, inclinacao, i, j) ==
    [ cfg |-> ConfiguracaoSimulacao(massa, TaxaPadrao, w, h, distancia,
                                    FromInt(inclinacao), FovPadrao, 1),
      i |-> i, j |-> j ]

CasosDeRaio ==
    { Caso(MassaPadrao, 2, 2, FromInt(100), 90, 1, 1),
      Caso(MassaPadrao, 2, 2, FromInt(100), 75, 1, 1),
      Caso(MassaPadrao, 2, 2, FromInt(100), 0, 1, 1),
      Caso(MassaPadrao, 1, 4, FromInt(100), 60, 0, 3),
      Caso(MassaPadrao, 3, 3, FromInt(100), 30, 0, 2),
      Caso(MassaPequena, 2, 2, FromInt(100), 75, 1, 1),
      Caso(MassaPequena, 2, 2, FromInt(100), 30, 1, 1),
      Caso(MassaPequena, 3, 3, FromInt(5), 60, 1, 1),
      Caso(MassaPequena, 3, 3, FromInt(5), 60, 2, 2),
      Caso(MassaPequena, 2, 2, Dec(10005, -4), 75, 1, 1),
      Caso(MassaPequena, 2, 2, FromInt(251170), 30, 1, 1) }
    \cup { Caso(MassaPadrao, 4, 4, FromInt(100), 75, i, j) :
             i \in {0, 1, 3}, j \in {0, 1, 3} }
    \cup { Caso(MassaPequena, 4, 4, FromInt(2), 75, i, j) :
             i \in {0, 3}, j \in {0, 2} }

InitRaioDe(cfg, rt, i, j) ==
    /\ config_ = cfg
    /\ ray_tracer_ = rt
    /\ traco = InicioDoRaio(rt, AlfaDoPixel(rt, i), BetaDoPixel(rt, j))

InitRaioEm(casos) ==
    /\ \E caso \in casos :
          InitRaioDe(caso.cfg, inicializar(caso.cfg), caso.i, caso.j)
    /\ resultado = Nenhum
    /\ pc_raio = "loop"
    /\ diretorio_saida = TRUE
    /\ SimuladorParado
    /\ AmostraParada

InitRaio == InitRaioEm(CasosDeRaio)
SpecRaio == InitRaio /\ [][NextRaio]_vars

(***************************************************************************)
(* DiscoAcrecao::temperatura and DiscoAcrecao::cor_corpo_negro applied to  *)
(* sampled inputs: amostra is the call and, once it returned, its value.   *)
(***************************************************************************)
SemSimulador ==
    /\ config_ = Nenhum /\ ray_tracer_ = Nenhum /\ diretorio_saida = FALSE
    /\ SimuladorParado

\* The disks: the constructor with several masses and spins.
DiscosDeAmostra ==
    { DiscoAcrecao(massa, TaxaPadrao, spin) :
        massa \in { MassaPadrao, MassaPequena, Dec(4, 6) },
        spin \in { Zero, Half } }

\* The radii of a disk: both edges, radii on both sides of each edge, radii
\* inside the annulus.
DecimosDoRaioInterno == { 5, 9, 11, 15, 30, 100, 1000, 1500, 2000, 3000, 6000 }
RaiosDeAmostra(disco) ==
    { disco.raio_interno_, disco.raio_externo_, Zero,
      Mul[disco.raio_externo_, Dec(999999, -6)],
      Mul[disco.raio_externo_, Dec(1000001, -6)],
      Mul[disco.raio_interno_, Dec(999999, -6)],
      Mul[disco.raio_interno_, Dec(1000001, -6)] }
    \cup { Mul[disco.raio_interno_, Dec(k, -1)] : k \in DecimosDoRaioInterno }

\* The temperatures: both signs, zero, both sides of the thresholds
\* t = T / 100 = 19 and t = 66, very small and very large values.
TemperaturasDeAmostra ==
    { Zero, Neg[One], Dec(-5, 3), NInf, PInf, Ldexp[One, -900], Dec(1, -3), One,
      FromInt(100), FromInt(101), FromInt(500), FromInt(1000), FromInt(1899),
      FromInt(1900), FromInt(1901), FromInt(2500), FromInt(4000),
      FromInt(6000), FromInt(6500), FromInt(6599), FromInt(6600),
      FromInt(6601), FromInt(6700), FromInt(8000), FromInt(10000),
      Dec(4, 4), Dec(1, 6), Dec(10291189, 0), Dec(1, 12), Ldexp[One, 900] }

ChamadaDeTemperatura(disco, raio) ==
    [ funcao |-> "temperatura", disco |-> disco, entrada |-> raio,
      retornou |-> FALSE, saida |-> Zero ]
ChamadaDeCor(T) ==
    [ funcao |-> "cor_corpo_negro", entrada |-> T, retornou |-> FALSE,
      saida |-> Preto ]

InitDisco ==
    /\ amostra \in
         { ChamadaDeTemperatura(disco, raio) :
             disco \in DiscosDeAmostra,
             raio \in UNION { RaiosDeAmostra(d) : d \in DiscosDeAmostra } }
         \cup { ChamadaDeCor(T) : T \in TemperaturasDeAmostra }
    /\ amostra.funcao = "temperatura" => amostra.entrada \in RaiosDeAmostra(amostra.disco)
    /\ SemSimulador
    /\ RaioParado

RetornaTemperatura ==
    /\ amostra.funcao = "temperatura"
    /\ ~amostra.retornou
    /\ amostra' = [amostra EXCEPT
                      !.retornou = TRUE,
                      !.saida = temperatura(amostra.disco, amostra.entrada)]
    /\ UNCHANGED varsSimulador
    /\ UNCHANGED varsRaio

RetornaCor ==
    /\ amostra.funcao = "cor_corpo_negro"
    /\ ~amostra.retornou
    /\ amostra' = [amostra EXCEPT !.retornou = TRUE,
                                  !.saida = cor_corpo_negro(amostra.entrada)]
    /\ UNCHANGED varsSimulador
    /\ UNCHANGED varsRaio

NextDisco == RetornaTemperatura \/ RetornaCor
SpecDisco == InitDisco /\ [][NextDisco]_vars

Retornou(funcao) == amostra.funcao = funcao /\ amostra.retornou

\* C19 as stated: temperatura returns T(r) > 0 for every r of the closed
\* annulus [r_in, r_out], both edges included, and 0 for every r outside it.
C19_TemperaturaPositivaNoAnelFechado ==
    Retornou("temperatura") =>
        IF no_disco(amostra.disco, amostra.entrada)
        THEN Gt[amostra.saida, Zero]
        ELSE amostra.saida = Zero

\* C19, amended: temperatura returns 0 for every r outside [r_in, r_out] and
\* at the inner edge r = r_in, where the factor 1 - sqrt(r_in / r) vanishes,
\* and T(r) > 0 for every r with r_in < r <= r_out; so a DISCO ray is coloured
\* from a strictly positive temperature unless it ended at r = r_in exactly.
C19_TemperaturaNoAnel ==
    Retornou("temperatura") =>
        IF ~no_disco(amostra.disco, amostra.entrada) THEN amostra.saida = Zero
        ELSE IF amostra.entrada = amostra.disco.raio_interno_
             THEN amostra.saida = Zero
             ELSE Gt[amostra.saida, Zero]

\* C19, witness: temperatura returned a positive value at the outer edge.
C19_NaBordaExterna ==
    /\ Retornou("temperatura")
    /\ amostra.entrada = amostra.disco.raio_externo_
    /\ Gt[amostra.saida, Zero]

\* C20: cor_corpo_negro returns (0, 0, 0) for T <= 0; for T > 0 every channel
\* lies in [0, 1], and with t = T / 100 the red channel is 1 for t <= 66 and
\* below 1 on the power law from t = 67 on, the green channel is below 1 on
\* the logarithm up to t = 65, the blue channel is 0 for t <= 19 and 1 for
\* t >= 66.
C20_CorCorpoNegro ==
    Retornou("cor_corpo_negro") =>
        IF Le[amostra.entrada, Zero] THEN amostra.saida = Preto
        ELSE /\ \A k \in 1..3 : Ge[amostra.saida[k], Zero] /\ Le[amostra.saida[k], One]
             /\ Le[amostra.entrada, FromInt(6600)] => amostra.saida[1] = One
             /\ Ge[amostra.entrada, FromInt(6700)] => Lt[amostra.saida[1], One]
             /\ Le[amostra.entrada, FromInt(6500)] => Lt[amostra.saida[2], One]
             /\ Le[amostra.entrada, FromInt(1900)] => amostra.saida[3] = Zero
             /\ Ge[amostra.entrada, FromInt(6600)] => amostra.saida[3] = One

\* C20, witness: a temperature between the thresholds, whose colour has a
\* red channel of 1 and green and blue channels strictly between 0 and 1.
C20_EntreOsLimiares ==
    /\ Retornou("cor_corpo_negro")
    /\ Gt[amostra.entrada, FromInt(1900)] /\ Lt[amostra.entrada, FromInt(6500)]
    /\ amostra.saida[1] = One
    /\ Gt[amostra.saida[2], Zero] /\ Lt[amostra.saida[2], One]
    /\ Gt[amostra.saida[3], Zero] /\ Lt[amostra.saida[3], One]

(***************************************************************************)
(* RayTracer::set_camera and SimuladorBuracoNegro::set_configuracao called *)
(* any number of times on a constructed simulator: amostra is the sequence *)
(* of cameras passed to set_camera since the ray tracer was constructed.   *)
(***************************************************************************)
MaxChamadas == 3

\* simulador.hpp, lines 392-395: the new configuration builds a new ray
\* tracer, whose camera is set once.
set_configuracao(cfg) == inicializar(cfg)

ConfiguracoesDeCamera ==
    { ConfiguracaoSimulacao(massa, TaxaPadrao, 2, 2, FromInt(100),
                            FromInt(75), FovPadrao, 1) :
        massa \in { MassaPadrao, MassaPequena, Dec(4, 6) } }

CamerasDeAmostra ==
    { Camera(r, Div[MPI, FromInt(3)], Div[MPI, FromInt(4)],
             Div[MPI, FromInt(4)], 2, 2) :
        r \in { FromInt(100), FromInt(5), Dec(15, -1), Zero } }
    \cup { CameraPadrao,
           Camera(FromInt(100), MPI2, Div[MPI, FromInt(4)],
                  Div[MPI, FromInt(8)], 4, 2) }

InitCamera ==
    /\ config_ \in ConfiguracoesDeCamera
    /\ ray_tracer_ = inicializar(config_)
    /\ amostra = << CameraDaConfiguracao(config_) >>
    /\ diretorio_saida = TRUE
    /\ SimuladorParado
    /\ RaioParado

ChamaSetCamera ==
    /\ Len(amostra) < MaxChamadas
    /\ \E cam \in CamerasDeAmostra :
          /\ ray_tracer_' = set_camera(ray_tracer_, cam)
          /\ amostra' = Append(amostra, cam)
    /\ UNCHANGED << config_, pc, imagem, escritas, linhas_processadas_,
                    threads, arquivo, cerr, retorno >>
    /\ UNCHANGED varsMain
    /\ UNCHANGED varsRaio

ChamaSetConfiguracao ==
    /\ \E cfg \in ConfiguracoesDeCamera :
          /\ config_' = cfg
          /\ ray_tracer_' = set_configuracao(cfg)
          /\ amostra' = << CameraDaConfiguracao(cfg) >>
    /\ diretorio_saida' = TRUE
    /\ UNCHANGED << pc, imagem, escritas, linhas_processadas_, threads,
                    arquivo, cerr, retorno, argv, apenas_analise,
                    modo_interativo, cout >>
    /\ UNCHANGED varsRaio

NextCamera == ChamaSetCamera \/ ChamaSetConfiguracao
SpecCamera == InitCamera /\ [][NextCamera]_vars

UltimaCamera == amostra[Len(amostra)]
MesmaCameraDuasVezes ==
    Len(amostra) >= 2 /\ amostra[Len(amostra) - 1] = UltimaCamera

\* C12 as stated: after two successive calls set_camera(cam); set_camera(cam)
\* the stored observer radius is cam.r_observador * r_s * r_s.
C12_DuasChamadasEscalamDuasVezes ==
    MesmaCameraDuasVezes =>
        ray_tracer_.camera_.r_observador =
            Mul[Mul[UltimaCamera.r_observador, ray_tracer_.rs_], ray_tracer_.rs_]

\* C12, amended: set_camera stores the camera it is given with the observer
\* radius multiplied by r_s once; after any number of calls, two successive
\* calls with the same camera included, the stored camera is the last
\* argument with radius cam.r_observador * r_s.
C12_UltimaCameraEscalaUmaVez ==
    ray_tracer_.camera_ =
        [UltimaCamera EXCEPT
            !.r_observador = Mul[UltimaCamera.r_observador, ray_tracer_.rs_]]

\* C12, witness: set_camera was called twice in succession with the same
\* camera, of a radius that r_s changes.
C12_ChamadaRepetida ==
    /\ MesmaCameraDuasVezes
    /\ ray_tracer_.camera_.r_observador # UltimaCamera.r_observador
    /\ Mul[ray_tracer_.camera_.r_observador, ray_tracer_.rs_]
          # ray_tracer_.camera_.r_observador

(***************************************************************************)
(* The photon state RayTracer::tracar_raio builds (lines 151-177) for the  *)
(* pixels of sampled configurations: amostra is the pixel and, once built, *)
(* the state.                                                              *)
(***************************************************************************)
CasosDeEstado ==
    { Caso(massa, n, n, distancia, inclinacao, i, j) :
        massa \in { MassaPadrao, MassaPequena },
        n \in { 4 },
        distancia \in { FromInt(100), FromInt(2) },
        inclinacao \in { 75, 0, 90 },
        i \in 0..3, j \in 0..3 }
    \cup { Caso(MassaPadrao, 8, 6, FromInt(100), 75, i, j) :
             i \in { 3, 4, 5 }, j \in { 2, 3, 4 } }

ChamadaDeEstado(caso) ==
    [ cfg |-> caso.cfg, i |-> caso.i, j |-> caso.j, retornou |-> FALSE,
      saida |-> << Zero, Zero, Zero, Zero, Zero, Zero, Zero, Zero >> ]

InitEstado ==
    /\ \E caso \in CasosDeEstado :
          /\ config_ = caso.cfg
          /\ ray_tracer_ = inicializar(caso.cfg)
          /\ amostra = ChamadaDeEstado(caso)
    /\ diretorio_saida = TRUE
    /\ SimuladorParado
    /\ RaioParado

ConstroiEstado ==
    /\ ~amostra.retornou
    /\ amostra' =
          [amostra EXCEPT
             !.retornou = TRUE,
             !.saida = EstadoInicial(ray_tracer_,
                                     AlfaDoPixel(ray_tracer_, amostra.i),
                                     BetaDoPixel(ray_tracer_, amostra.j))]
    /\ UNCHANGED varsSimulador
    /\ UNCHANGED varsRaio

NextEstado == ConstroiEstado
SpecEstado == InitEstado /\ [][NextEstado]_vars

\* The four terms of g_mu_nu u^mu u^nu at a state (the condition written in
\* the comment of lines 166-167), their sum and the sum of their magnitudes.
TermosNulos(f, r, sin_theta, u_t, u_r, u_theta, u_phi) ==
    << Neg[Mul[Mul[f, u_t], u_t]],
       Div[Mul[u_r, u_r], f],
       Mul[Mul[Mul[r, r], u_theta], u_theta],
       Mul[Mul[Mul[Mul[Mul[r, r], sin_theta], sin_theta], u_phi], u_phi] >>
TermosDoEstado(rs, e) ==
    TermosNulos(Sub[One, Div[rs, e[2]]], e[2], Sin[e[3]], e[5], e[6], e[7], e[8])
Residuo(termos) == Add[Add[termos[1], termos[2]], Add[termos[3], termos[4]]]
Escala(termos) ==
    Add[Add[Abs[termos[1]], Abs[termos[2]]], Add[Abs[termos[3]], Abs[termos[4]]]]

\* A relative tolerance far wider than 1e-10, above the rounding of the
\* arithmetic: a state outside it is outside 1e-10 as well.
ToleranciaNula == Dec(1, -6)
CondicaoNula(rs, e) ==
    Le[Abs[Residuo(TermosDoEstado(rs, e))],
       Mul[ToleranciaNula, Escala(TermosDoEstado(rs, e))]]

\* The argument of the max(0, .) guard of line 174 is negative.
GuardaTomada(rt, alfa, beta) ==
    Lt[Mul[Sub[One, Div[rt.rs_, rt.camera_.r_observador]],
           Sub[Sub[Div[One, Sub[One, Div[rt.rs_, rt.camera_.r_observador]]],
                   Mul[beta, beta]],
               Mul[alfa, alfa]]],
       Zero]

\* C15: for every pixel's impact parameters and every observer with
\* r_obs > r_s, the state tracar_raio builds satisfies the null condition
\* -f u_t^2 + u_r^2 / f + r^2 u_theta^2 + r^2 sin^2(theta) u_phi^2 = 0 to the
\* relative tolerance, also when the max(0, .) guard is taken, and u_r <= 0.
C15_EstadoInicialNulo ==
    (amostra.retornou /\ Gt[ray_tracer_.camera_.r_observador, ray_tracer_.rs_]) =>
        /\ CondicaoNula(ray_tracer_.rs_, amostra.saida)
        /\ Le[amostra.saida[6], Zero]

\* C15, the part that holds: u_r <= 0 always, and the null condition when
\* the guard is not taken and sin(theta_obs) is not zero.
C15_NuloSemGuarda ==
    (amostra.retornou /\ Gt[ray_tracer_.camera_.r_observador, ray_tracer_.rs_]) =>
        /\ Le[amostra.saida[6], Zero]
        /\ (~GuardaTomada(ray_tracer_, AlfaDoPixel(ray_tracer_, amostra.i),
                          BetaDoPixel(ray_tracer_, amostra.j))
            /\ ~IsZero(Sin[ray_tracer_.camera_.theta_observador]))
           => CondicaoNula(ray_tracer_.rs_, amostra.saida)

\* C15, the case that fails: the guard is taken, u_r is set to 0 and the
\* remaining terms do not cancel.
C15_GuardaTomada ==
    /\ amostra.retornou
    /\ Gt[ray_tracer_.camera_.r_observador, ray_tracer_.rs_]
    /\ GuardaTomada(ray_tracer_, AlfaDoPixel(ray_tracer_, amostra.i),
                    BetaDoPixel(ray_tracer_, amostra.j))
    /\ IsZero(amostra.saida[6])
    /\ ~CondicaoNula(ray_tracer_.rs_, amostra.saida)

(***************************************************************************)
(* main, SimuladorBuracoNegro::renderizar and RayTracer::renderizar with   *)
(* its worker threads.  A thread is the record of its block [inicio, fim), *)
(* its loop variables j and i, its position and the locals of the call of  *)
(* tracar_raio it is in.  pc is "main" before the simulator is built,      *)
(* "simulador" once it is, "threads" inside RayTracer::renderizar,         *)
(* "salvar" when the raster was returned, "salvo" or "falhou" when         *)
(* SimuladorBuracoNegro::renderizar returned, "fim" when main returned.    *)
(***************************************************************************)
PixelPadrao == Pixel(Zero, Zero, Zero)
TracoVazio ==
    [ alfa |-> Zero, beta |-> Zero,
      estado |-> << Zero, Zero, Zero, Zero, Zero, Zero, Zero, Zero >>,
      i |-> 0, rk4 |-> 0, passo_ |-> Zero ]
ArquivoVazio == [ aberto |-> FALSE, cabecalho |-> << >>, bytes |-> << >> ]

\* renderizar, line 305: altura rows of largura default pixels.
ImagemNova(altura, largura) ==
    [ j \in 1..altura |-> [ i \in 1..largura |-> PixelPadrao ] ]
SemEscritas(altura, largura) ==
    [ j \in 1..altura |-> [ i \in 1..largura |-> << >> ] ]

\* Lines 313-315: the call of tracar_raio for pixel (i, j), up to its loop.
RaioDoPixelPorThreads(rt, i, j) ==
    InicioDoRaio(rt, AlfaDoPixel(rt, i),
                 BetaDoPixel(rt, j + rt.num_threads_ - 1))
RaioDoPixel(rt, i, j) ==
    InicioDoRaio(rt, AlfaDoPixel(rt, i), BetaDoPixel(rt, j))

\* Lines 310-311: processar_bloco at the head of row j.
NaLinha(rt, th, j) ==
    IF ~(j < th.fim) THEN [th EXCEPT !.j = j, !.pc = "fim", !.traco = TracoVazio]
    ELSE IF 0 < rt.camera_.largura
    THEN [th EXCEPT !.j = j, !.i = 0, !.pc = "raio",
                    !.traco = RaioDoPixel(rt, 0, j)]
    ELSE [th EXCEPT !.j = j, !.i = 0, !.pc = "linha", !.traco = TracoVazio]

\* Line 311, after the body for pixel (i - 1, j).
NoPixel(rt, th, i) ==
    IF i < rt.camera_.largura
    THEN [th EXCEPT !.i = i, !.traco = RaioDoPixel(rt, i, th.j)]
    ELSE [th EXCEPT !.i = i, !.pc = "linha", !.traco = TracoVazio]

\* Line 331: the thread running processar_bloco(inicio, fim).
ThreadNova(rt, inicio, fim) ==
    NaLinha(rt, [ inicio |-> inicio, fim |-> fim, j |-> inicio, i |-> 0,
                  pc |-> "fim", traco |-> TracoVazio, juntada |-> FALSE ],
            inicio)

\* The value tracar_raio returns from the locals of its loop.
ResultadoDoTraco(rt, tr) ==
    IF tr.i < max_passos_ THEN ResultadoIteracao(rt, tr.estado, tr.i)
    ELSE ResultadoErro

\* The update of the threads by a step of the ray of thread t.
ThreadsAposPassoCompartilhado(ths, t, tr) ==
    [ u \in DOMAIN ths |->
        IF u = t THEN [ths[u] EXCEPT !.traco = tr]
        ELSE [ths[u] EXCEPT !.traco.passo_ = tr.passo_] ]
ThreadsAposPasso(ths, t, tr) == [ths EXCEPT ![t].traco = tr]

\* Line 320, linhas_processadas_++ on the atomic counter.
IncrementaPorPixel(linhas, largura) == linhas + largura
Incrementa(linhas, largura) == linhas + 1

\* Pixel::r_byte, g_byte, b_byte, lines 53-55: static_cast<uint8_t>(c * 255).
ByteArredondado(c) == TruncInt(Add[Mul[c, FromInt(255)], Half]) % 256
r_byte(c) == TruncInt(Mul[c, FromInt(255)]) % 256
BytesDoPixel(p) ==
    << r_byte(clamp(p[1])), r_byte(clamp(p[2])), r_byte(clamp(p[3])) >>

\* salvar_ppm, lines 362-368: the two loops, appending to the bytes written.
RECURSIVE EscreveLinha(_, _, _, _)
EscreveLinha(bytes, linha, largura, i) ==
    IF ~(i < largura) THEN bytes
    ELSE EscreveLinha(bytes \o BytesDoPixel(linha[i + 1]), linha, largura, i + 1)
RECURSIVE EscreveLinhas(_, _, _, _, _)
EscreveLinhas(bytes, img, altura, largura, j) ==
    IF ~(j < altura) THEN bytes
    ELSE EscreveLinhas(EscreveLinha(bytes, img[j + 1], largura, 0),
                       img, altura, largura, j + 1)

\* salvar_ppm, lines 352-372; abriu is the outcome of opening the file.
salvar_ppmSemTeste(img, abriu) ==
    [ ok |-> TRUE,
      arquivo |-> [ aberto |-> abriu,
                    cabecalho |-> << "P6", Len(img[1]), Len(img), 255 >>,
                    bytes |-> EscreveLinhas(<< >>, img, Len(img), Len(img[1]), 0) ] ]
salvar_ppm(img, abriu) ==
    IF ~abriu THEN [ ok |-> FALSE, arquivo |-> ArquivoVazio ]
    ELSE [ ok |-> TRUE,
           arquivo |-> [ aberto |-> TRUE,
                         cabecalho |-> << "P6", Len(img[1]), Len(img), 255 >>,
                         bytes |-> EscreveLinhas(<< >>, img, Len(img),
                                                 Len(img[1]), 0) ] ]

\* The raster of a ray tracer: every pixel's ray traced by itself.
RaioDe(rt, i, j) == tracar_raio(rt, AlfaDoPixel(rt, i), BetaDoPixel(rt, j))
RasterDe(rt) ==
    [ j \in 1..rt.camera_.altura |->
        [ i \in 1..rt.camera_.largura |-> RaioDe(rt, i - 1, j - 1).cor ] ]
DestinosDe(rt) ==
    [ j \in 1..rt.camera_.altura |->
        [ i \in 1..rt.camera_.largura |-> RaioDe(rt, i - 1, j - 1).destino ] ]

\* main, lines 119-164: one iteration of the loop over the options.  The
\* options with an argument are already applied to config_; -h and an
\* unknown option print the help and return.
Ajuda == "ajuda"
EstadoAposOpcaoSemErro(opt) ==
    IF opt = "a"
    THEN [ apenas_analise |-> TRUE, modo_interativo |-> modo_interativo,
           cout |-> cout, retorno |-> retorno, pc |-> pc ]
    ELSE IF opt = "I"
    THEN [ apenas_analise |-> apenas_analise, modo_interativo |-> TRUE,
           cout |-> cout, retorno |-> retorno, pc |-> pc ]
    ELSE [ apenas_analise |-> apenas_analise, modo_interativo |-> modo_interativo,
           cout |-> Append(cout, Ajuda), retorno |-> 0, pc |-> "fim" ]
EstadoAposOpcao(opt) ==
    IF opt = "a"
    THEN [ apenas_analise |-> TRUE, modo_interativo |-> modo_interativo,
           cout |-> cout, retorno |-> retorno, pc |-> pc ]
    ELSE IF opt = "I"
    THEN [ apenas_analise |-> apenas_analise, modo_interativo |-> TRUE,
           cout |-> cout, retorno |-> retorno, pc |-> pc ]
    ELSE IF opt = "h"
    THEN [ apenas_analise |-> apenas_analise, modo_interativo |-> modo_interativo,
           cout |-> Append(cout, Ajuda), retorno |-> 0, pc |-> "fim" ]
    ELSE [ apenas_analise |-> apenas_analise, modo_interativo |-> modo_interativo,
           cout |-> Append(cout, Ajuda), retorno |-> 1, pc |-> "fim" ]
LeOpcao ==
    /\ pc = "main"
    /\ argv # << >>
    /\ argv' = Tail(argv)
    /\ apenas_analise' = EstadoAposOpcao(Head(argv)).apenas_analise
    /\ modo_interativo' = EstadoAposOpcao(Head(argv)).modo_interativo
    /\ cout' = EstadoAposOpcao(Head(argv)).cout
    /\ retorno' = EstadoAposOpcao(Head(argv)).retorno
    /\ pc' = EstadoAposOpcao(Head(argv)).pc
    /\ UNCHANGED << config_, ray_tracer_, imagem, escritas, linhas_processadas_,
                    threads, arquivo, cerr, amostra, diretorio_saida >>
    /\ UNCHANGED varsRaio

\* main, lines 171-173, and menu_interativo: every answer is an empty line
\* or a new value; the answers of the model keep the configuration or
\* change the number of threads.
ConfiguracoesDoMenu(cfg) == { cfg, [cfg EXCEPT !.num_threads = 2] }
MenuInterativo ==
    /\ pc = "main"
    /\ argv = << >>
    /\ modo_interativo
    /\ config_' \in ConfiguracoesDoMenu(config_)
    /\ cout' = Append(cout, "menu")
    /\ pc' = "menu"
    /\ UNCHANGED << ray_tracer_, imagem, escritas, linhas_processadas_, threads,
                    arquivo, cerr, retorno, amostra, argv, apenas_analise,
                    modo_interativo, diretorio_saida >>
    /\ UNCHANGED varsRaio

\* main, line 176: SimuladorBuracoNegro simulador(config).  The constructor
\* calls inicializar, which creates the output directory (line 389).
ConstroiSimulador ==
    /\ \/ pc = "main" /\ argv = << >> /\ ~modo_interativo
       \/ pc = "menu"
    /\ ray_tracer_' = inicializar(config_)
    /\ diretorio_saida' = TRUE
    /\ pc' = "simulador"
    /\ UNCHANGED << config_, imagem, escritas, linhas_processadas_, threads,
                    arquivo, cerr, retorno, amostra, argv, apenas_analise,
                    modo_interativo, cout >>
    /\ UNCHANGED varsRaio

\* main, lines 179-182: analise_fisica prints and main returns 0.
AnaliseFisica ==
    /\ pc = "simulador"
    /\ apenas_analise
    /\ cout' = Append(cout, "analise_fisica")
    /\ retorno' = 0
    /\ pc' = "fim"
    /\ UNCHANGED << config_, ray_tracer_, imagem, escritas, linhas_processadas_,
                    threads, arquivo, cerr, amostra, argv, apenas_analise,
                    modo_interativo, diretorio_saida >>
    /\ UNCHANGED varsRaio

\* main, line 185, SimuladorBuracoNegro::renderizar up to line 423 and
\* RayTracer::renderizar, lines 302-306.
IniciaRenderizacao ==
    /\ pc = "simulador"
    /\ ~apenas_analise
    /\ cout' = Append(cout, "imprimir_parametros")
    /\ imagem' = ImagemNova(ray_tracer_.camera_.altura, ray_tracer_.camera_.largura)
    /\ escritas' = SemEscritas(ray_tracer_.camera_.altura, ray_tracer_.camera_.largura)
    /\ linhas_processadas_' = 0
    /\ threads' = << >>
    /\ pc' = "threads"
    /\ UNCHANGED << config_, ray_tracer_, arquivo, cerr, retorno, amostra,
                    argv, apenas_analise, modo_interativo, diretorio_saida >>
    /\ UNCHANGED varsRaio

\* Lines 328-332: one iteration of the loop that starts the threads.
CriaThread ==
    /\ pc = "threads"
    /\ Len(threads) < ray_tracer_.num_threads_
    /\ threads' =
          Append(threads,
                 ThreadNova(ray_tracer_,
                            InicioDoBloco(Len(threads),
                                          LinhasPorThread(ray_tracer_.camera_.altura,
                                                          ray_tracer_.num_threads_)),
                            FimDoBloco(Len(threads), ray_tracer_.num_threads_,
                                       ray_tracer_.camera_.altura,
                                       LinhasPorThread(ray_tracer_.camera_.altura,
                                                       ray_tracer_.num_threads_))))
    /\ UNCHANGED << config_, ray_tracer_, pc, imagem, escritas,
                    linhas_processadas_, arquivo, cerr, retorno, amostra >>
    /\ UNCHANGED varsMain
    /\ UNCHANGED varsRaio

\* A thread in tracar_raio, lines 184-241: an iteration that integrates.
PassoDoRaio(t) ==
    /\ threads[t].pc = "raio"
    /\ threads[t].traco.i < max_passos_
    /\ ~Terminou(ray_tracer_, threads[t].traco.estado)
    /\ threads' = ThreadsAposPasso(threads, t,
                                   AvancaTraco(ray_tracer_, threads[t].traco))
    /\ UNCHANGED << config_, ray_tracer_, pc, imagem, escritas,
                    linhas_processadas_, arquivo, cerr, retorno, amostra >>
    /\ UNCHANGED varsMain
    /\ UNCHANGED varsRaio

\* tracar_raio returns and line 316 stores the colour: imagem[j][i] = cor.
EscrevePixel(t) ==
    /\ threads[t].pc = "raio"
    /\ \/ ~(threads[t].traco.i < max_passos_)
       \/ Terminou(ray_tracer_, threads[t].traco.estado)
    /\ imagem' = [imagem EXCEPT ![threads[t].j + 1][threads[t].i + 1] =
                     ResultadoDoTraco(ray_tracer_, threads[t].traco).cor]
    /\ escritas' = [escritas EXCEPT ![threads[t].j + 1][threads[t].i + 1] =
                       Append(@, t)]
    /\ threads' = [threads EXCEPT ![t] = NoPixel(ray_tracer_, @, @.i + 1)]
    /\ UNCHANGED << config_, ray_tracer_, pc, linhas_processadas_, arquivo,
                    cerr, retorno, amostra >>
    /\ UNCHANGED varsMain
    /\ UNCHANGED varsRaio

\* Line 320 and the head of the loop over j.
ContaLinha(t) ==
    /\ threads[t].pc = "linha"
    /\ linhas_processadas_' =
          Incrementa(linhas_processadas_, ray_tracer_.camera_.largura)
    /\ threads' = [threads EXCEPT ![t] = NaLinha(ray_tracer_, @, @.j + 1)]
    /\ UNCHANGED << config_, ray_tracer_, pc, imagem, escritas, arquivo,
                    cerr, retorno, amostra >>
    /\ UNCHANGED varsMain
    /\ UNCHANGED varsRaio

\* Lines 335-337: join returns for the first thread not yet joined.
PrimeiraNaoJuntada ==
    CHOOSE t \in 1..Len(threads) :
        ~threads[t].juntada /\ \A u \in 1..(t - 1) : threads[u].juntada
JoinSemEsperar(th) == TRUE
JoinRetorna(th) == th.pc = "fim"
JuntaThread ==
    /\ pc = "threads"
    /\ Len(threads) = ray_tracer_.num_threads_
    /\ \E t \in 1..Len(threads) : ~threads[t].juntada
    /\ JoinRetorna(threads[PrimeiraNaoJuntada])
    /\ threads' = [threads EXCEPT ![PrimeiraNaoJuntada].juntada = TRUE]
    /\ UNCHANGED << config_, ray_tracer_, pc, imagem, escritas,
                    linhas_processadas_, arquivo, cerr, retorno, amostra >>
    /\ UNCHANGED varsMain
    /\ UNCHANGED varsRaio

\* Line 339, return imagem, back in SimuladorBuracoNegro::renderizar.
RetornaImagem ==
    /\ pc = "threads"
    /\ Len(threads) = ray_tracer_.num_threads_
    /\ \A t \in 1..Len(threads) : threads[t].juntada
    /\ pc' = "salvar"
    /\ UNCHANGED << config_, ray_tracer_, imagem, escritas, linhas_processadas_,
                    threads, arquivo, cerr, retorno, amostra >>
    /\ UNCHANGED varsMain
    /\ UNCHANGED varsRaio

\* simulador.hpp, lines 440-447: salvar_ppm and the value renderizar
\* returns; the file opens or it does not.
MensagemDeSalvar == "[ERRO] Não foi possível salvar a imagem!"
SalvaPPM ==
    /\ pc = "salvar"
    /\ \E abriu \in BOOLEAN :
          /\ arquivo' = salvar_ppm(imagem, abriu).arquivo
          /\ IF salvar_ppm(imagem, abriu).ok
             THEN /\ pc' = "salvo" /\ cerr' = cerr
                  /\ cout' = Append(cout, "[SALVO]")
             ELSE /\ pc' = "falhou" /\ cerr' = Append(cerr, MensagemDeSalvar)
                  /\ cout' = cout
    /\ UNCHANGED << config_, ray_tracer_, imagem, escritas, linhas_processadas_,
                    threads, retorno, amostra, argv, apenas_analise,
                    modo_interativo, diretorio_saida >>
    /\ UNCHANGED varsRaio

\* main.cpp, lines 185-200: after a rendering that succeeded main asks
\* on the standard input whether to print the analysis.
MensagemDeMain == "Erro na renderização!"
SaidaAposResposta(sim) ==
    IF sim THEN << "pergunta", "analise_fisica", "concluida" >>
    ELSE << "pergunta", "concluida" >>
TerminaMain ==
    /\ pc \in { "salvo", "falhou" }
    /\ IF pc = "falhou"
       THEN cerr' = Append(cerr, MensagemDeMain) /\ retorno' = 1 /\ cout' = cout
       ELSE /\ cerr' = cerr /\ retorno' = 0
            /\ \E sim \in BOOLEAN : cout' = cout \o SaidaAposResposta(sim)
    /\ pc' = "fim"
    /\ UNCHANGED << config_, ray_tracer_, imagem, escritas, linhas_processadas_,
                    threads, arquivo, amostra, argv, apenas_analise,
                    modo_interativo, diretorio_saida >>
    /\ UNCHANGED varsRaio

Next ==
    \/ LeOpcao
    \/ MenuInterativo
    \/ ConstroiSimulador
    \/ AnaliseFisica
    \/ IniciaRenderizacao
    \/ CriaThread
    \/ \E t \in 1..Len(threads) : PassoDoRaio(t)
    \/ \E t \in 1..Len(threads) : EscrevePixel(t)
    \/ \E t \in 1..Len(threads) : ContaLinha(t)
    \/ JuntaThread
    \/ RetornaImagem
    \/ SalvaPPM
    \/ TerminaMain

\* The configurations main is started with: images of a few pixels, block
\* sizes that divide the height and that do not, more threads than rows, an
\* observer in the disk plane, one near the hole, one inside the horizon,
\* one on the axis, a one-pixel image seen from the disk plane, a width of
\* 0, a negative mass.
Configuracao(massa, w, h, distancia, inclinacao, n) ==
    ConfiguracaoSimulacao(massa, TaxaPadrao, w, h, distancia,
                          FromInt(inclinacao), FovPadrao, n)
ConfiguracoesDeRender ==
    { Configuracao(MassaPadrao, 2, 2, FromInt(100), 0, n) : n \in { 1, 2, 3 } }
    \cup { Configuracao(MassaPequena, 2, 3, FromInt(2), 75, n) : n \in { 1, 2 } }
    \cup { Configuracao(MassaPequena, 1, 4, FromInt(5), 60, n) : n \in { 0, 3 } }
    \cup { Configuracao(MassaPadrao, 2, 2, Dec(5, -1), 75, n) : n \in { 2 } }
    \cup { Configuracao(MassaPadrao, 1, 1, FromInt(100), 90, n) : n \in { 2 } }
    \cup { Configuracao(MassaPadrao, 1, 1, FromInt(100), 0, n) : n \in { 1 } }
    \cup { Configuracao(MassaPadrao, 0, 2, FromInt(100), 75, n) : n \in { 2 } }
    \cup { Configuracao(Neg[MassaPadrao], 2, 1, FromInt(100), 75, n) : n \in { 1 } }
    \cup { [cfg EXCEPT !.tipo = kerr.tipo, !.spin = kerr.spin,
                       !.incluir_disco = disco, !.passo_integracao = passo,
                       !.max_passos = maximo] :
             cfg \in { Configuracao(MassaPadrao, 1, 1, FromInt(100), 0, 1),
                       Configuracao(MassaPequena, 1, 2, FromInt(2), 75, 1) },
             kerr \in { [tipo |-> "SCHWARZSCHILD", spin |-> Zero],
                        [tipo |-> "KERR", spin |-> Dec(9, -1)] },
             disco \in BOOLEAN, passo \in { Dec(1, -1), One },
             maximo \in { 10000, 0 } }

\* The options without an argument of a command line, in the order
\* getopt_long returns them; "?" is an option main does not know.
LinhasDeComando ==
    { << "a" >>, << "h" >>, << "?" >>, << "I" >>, << "a", "a" >>,
      << "a", "h" >>, << "a", "?" >>, << "h", "a" >>, << "?", "h" >>,
      << "I", "a" >>, << "a", "I" >>, << "I", "h" >> }
ConfiguracaoDasOpcoes == Configuracao(MassaPadrao, 2, 2, FromInt(100), 0, 1)

Init ==
    /\ \/ config_ \in ConfiguracoesDeRender /\ argv = << >>
       \/ config_ = ConfiguracaoDasOpcoes /\ argv \in LinhasDeComando
    /\ apenas_analise = FALSE /\ modo_interativo = FALSE
    /\ diretorio_saida = FALSE /\ cout = << >>
    /\ ray_tracer_ = Nenhum
    /\ pc = "main"
    /\ imagem = << >> /\ escritas = << >>
    /\ linhas_processadas_ = 0 /\ threads = << >>
    /\ arquivo = ArquivoVazio /\ cerr = << >> /\ retorno = Nenhum
    /\ RaioParado
    /\ AmostraParada

Spec == Init /\ [][Next]_vars

\* The rows the threads have completed: j - inicio summed over the threads.
RECURSIVE LinhasCompletas(_, _)
LinhasCompletas(ths, n) ==
    IF n = 0 THEN 0
    ELSE (ths[n].j - ths[n].inicio) + LinhasCompletas(ths, n - 1)

\* RayTracer::progresso, lines 343-345.
progresso(rt, linhas) == Div[FromInt(linhas), FromInt(rt.camera_.altura)]

EmRenderizacao == pc = "threads"
\* renderizar returned: main is past line 185 of a run that constructed the
\* simulator and was not asked for the analysis only.
AposRenderizacao ==
    /\ pc \in { "salvar", "salvo", "falhou", "fim" }
    /\ diretorio_saida /\ ~apenas_analise
ThreadsQueMudaram ==
    { t \in 1..Len(threads) : t <= Len(threads') /\ threads'[t] # threads[t] }

\* C16: among the threads of RayTracer::renderizar the row counter
\* linhas_processadas_ is the only location more than one of them changes.
\* It is 0 when the render starts; a step changes it only by adding 1, and
\* then exactly one thread has completed a row in that step; it equals the
\* number of rows completed so far, never exceeds the height (progresso()
\* stays in [0, 1] and never decreases) and equals the height once
\* renderizar has returned.
C16_ContadorDeLinhas ==
    /\ [](EmRenderizacao =>
            /\ linhas_processadas_ = LinhasCompletas(threads, Len(threads))
            /\ 0 <= linhas_processadas_
            /\ linhas_processadas_ <= ray_tracer_.camera_.altura
            /\ Ge[progresso(ray_tracer_, linhas_processadas_), Zero]
            /\ Le[progresso(ray_tracer_, linhas_processadas_), One])
    /\ [](AposRenderizacao => linhas_processadas_ = ray_tracer_.camera_.altura)
    /\ [][ /\ (pc = "simulador" /\ pc' = "threads") => linhas_processadas_' = 0
           /\ EmRenderizacao =>
                /\ linhas_processadas_' \in
                      { linhas_processadas_, linhas_processadas_ + 1 }
                /\ Cardinality(ThreadsQueMudaram) <= 1
                /\ linhas_processadas_' = linhas_processadas_ + 1 =>
                      \E t \in ThreadsQueMudaram :
                          /\ threads[t].pc = "linha"
                          /\ LinhasCompletas(threads', Len(threads')) =
                                LinhasCompletas(threads, Len(threads)) + 1
                          /\ imagem' = imagem
                /\ ray_tracer_' = ray_tracer_ ]_vars

\* C16, witness: rows completed by two different threads are counted while
\* another thread is still tracing.
C16_DuasThreadsContaram ==
    /\ EmRenderizacao
    /\ linhas_processadas_ >= 2
    /\ \E t, u, v \in 1..Len(threads) :
          /\ t # u
          /\ threads[t].j > threads[t].inicio
          /\ threads[u].j > threads[u].inicio
          /\ threads[v].pc = "raio"

Magenta == Pixel(One, Zero, One)
TodasTerminaram ==
    /\ Len(threads) = ray_tracer_.num_threads_
    /\ \A t \in 1..Len(threads) : threads[t].pc = "fim" /\ threads[t].juntada

\* C17: RayTracer::renderizar returns only after every thread it started
\* has finished and was joined, and the raster it returns is complete: every
\* one of the H * W pixels was written and holds the colour tracar_raio
\* returns for its ray, the magenta of a ray that ended in ERRO included.
C17_JuntaTodasAsThreads ==
    AposRenderizacao =>
        /\ TodasTerminaram
        /\ Len(imagem) = ray_tracer_.camera_.altura
        /\ \A j \in 1..Len(imagem) :
              /\ Len(imagem[j]) = ray_tracer_.camera_.largura
              /\ \A i \in 1..Len(imagem[j]) : Len(escritas[j][i]) >= 1
        /\ imagem = RasterDe(ray_tracer_)

\* C17, witness: renderizar returned from two threads a raster with a
\* pixel whose ray ended in ERRO.
C17_RetornouComErro ==
    /\ pc = "salvar"
    /\ Len(threads) >= 2
    /\ \E j \in 1..Len(imagem) : \E i \in 1..Len(imagem[j]) :
          /\ RaioDe(ray_tracer_, i - 1, j - 1).destino = "ERRO"
          /\ imagem[j][i] = Magenta

\* C18: no step of renderizar or of a thread's tracar_raio changes the ray
\* tracer (metric, disk, camera, integration parameters) or the
\* configuration; a step of a ray changes the locals of that call only, and
\* the step size its integrator then holds is the one set from that ray's
\* own radius, passo_inicial_ * sqrt(r / r_s), whatever the rays traced
\* concurrently by the other threads have set.
C18_IntegradorLocal ==
    [][ pc \notin { "main", "menu" } =>
          /\ ray_tracer_' = ray_tracer_
          /\ config_' = config_
          /\ \A t \in ThreadsQueMudaram :
                /\ \A u \in 1..Len(threads) : u # t => threads'[u] = threads[u]
                /\ threads'[t].traco.rk4 = threads[t].traco.rk4 + 1 =>
                      /\ threads'[t].traco.passo_ =
                            PassoAdaptativo(ray_tracer_, threads[t].traco.estado)
                      /\ threads'[t].traco.i = threads[t].traco.i + 1
                      /\ imagem' = imagem
                /\ threads'[t].traco.rk4 = 0 =>
                      threads'[t].traco.passo_ \in { passo_inicial_, Zero } ]_vars

\* C18, witness: two threads are inside tracar_raio at the same time, each
\* after a step of its own ray, with different step sizes.
C18_DoisRaiosSimultaneos ==
    /\ EmRenderizacao
    /\ \E t, u \in 1..Len(threads) :
          /\ threads[t].pc = "raio" /\ threads[u].pc = "raio"
          /\ threads[t].traco.rk4 > 0 /\ threads[u].traco.rk4 > 0
          /\ threads[t].traco.passo_ # threads[u].traco.passo_

\* C11: when the output file cannot be opened, salvar_ppm writes nothing
\* and returns false, SimuladorBuracoNegro::renderizar reports it and
\* returns false, main reports the error and exits with status 1, and the
\* raster stays as RayTracer::renderizar returned it; when the file opens,
\* nothing is reported and main exits with status 0.
C11_FalhaAoAbrir ==
    /\ [](pc = "falhou" =>
            /\ arquivo = ArquivoVazio
            /\ cerr = << MensagemDeSalvar >>
            /\ imagem = RasterDe(ray_tracer_))
    /\ [](pc = "salvo" => arquivo.aberto /\ cerr = << >>)
    /\ []((pc = "fim" /\ AposRenderizacao) =>
            IF arquivo.aberto THEN retorno = 0 /\ cerr = << >>
            ELSE /\ retorno = 1
                 /\ cerr = << MensagemDeSalvar, MensagemDeMain >>
                 /\ arquivo = ArquivoVazio
                 /\ imagem = RasterDe(ray_tracer_))
    /\ [][ /\ pc = "salvar" =>
                /\ imagem' = imagem
                /\ pc' = "falhou" <=> ~arquivo'.aberto
           /\ pc = "falhou" =>
                pc' = "fim" /\ imagem' = imagem /\ arquivo' = arquivo ]_vars

\* C11, witness: main returned 1 after the file of a rendered raster, with
\* pixels that are not black, could not be opened.
C11_SaiuComUm ==
    /\ pc = "fim"
    /\ retorno = 1
    /\ ~arquivo.aberto
    /\ \E j \in 1..Len(imagem) : \E i \in 1..Len(imagem[j]) :
          imagem[j][i] # PixelPadrao

\* The file salvar_ppm wrote: the byte of channel k of pixel (i, j), both
\* counted from 1, in row-major order, and the channel clamped to [0, 1].
Salvou == pc \in { "salvo", "fim" } /\ arquivo.aberto
ByteDoCanal(j, i, k) ==
    arquivo.bytes[3 * ((j - 1) * Len(imagem[1]) + (i - 1)) + k]
Limitado(c) ==
    IF IsNaN(c) THEN One
    ELSE IF Lt[c, Zero] THEN Zero
    ELSE IF Gt[c, One] THEN One
    ELSE c
Canais ==
    { << j, i, k >> : j \in 1..Len(imagem), i \in 1..Len(imagem[1]), k \in 1..3 }
Formato ==
    /\ arquivo.cabecalho = << "P6", Len(imagem[1]), Len(imagem), 255 >>
    /\ Len(arquivo.bytes) = 3 * Len(imagem[1]) * Len(imagem)
    /\ \A n \in 1..Len(arquivo.bytes) : arquivo.bytes[n] \in 0..255

\* C13 as stated: salvar_ppm writes W * H triples in row-major order and
\* every byte is the integer nearest to clamp(c, 0, 1) * 255.
C13_ByteArredondado ==
    Salvou =>
        /\ Formato
        /\ \A p \in Canais :
              Le[Abs[Sub[FromInt(ByteDoCanal(p[1], p[2], p[3])),
                         Mul[Limitado(imagem[p[1]][p[2]][p[3]]), FromInt(255)]]],
                 Half]

\* C13, amended: salvar_ppm writes the header and W * H triples in row-major
\* order, and every byte is clamp(c, 0, 1) * 255 truncated to an integer:
\* the largest integer not above it.
C13_ByteTruncado ==
    Salvou =>
        /\ Formato
        /\ \A p \in Canais :
              /\ Le[FromInt(ByteDoCanal(p[1], p[2], p[3])),
                    Mul[Limitado(imagem[p[1]][p[2]][p[3]]), FromInt(255)]]
              /\ Lt[Mul[Limitado(imagem[p[1]][p[2]][p[3]]), FromInt(255)],
                    FromInt(ByteDoCanal(p[1], p[2], p[3]) + 1)]

\* C13, witness: a written byte that truncation and rounding tell apart,
\* in the last row of a raster of several rows.
C13_ByteAbaixoDoMaisProximo ==
    /\ Salvou
    /\ Len(imagem) > 1
    /\ \E i \in 1..Len(imagem[1]), k \in 1..3 :
          Gt[Sub[Mul[Limitado(imagem[Len(imagem)][i][k]), FromInt(255)],
                 FromInt(ByteDoCanal(Len(imagem), i, k))],
             Half]

\* C14: the bytes salvar_ppm wrote, read back as byte / 255, are within
\* 1 / 255 of the channels of the raster renderizar returned.
C14_IdaEVolta ==
    Salvou =>
        \A p \in Canais :
            Le[Abs[Sub[Div[FromInt(ByteDoCanal(p[1], p[2], p[3])), FromInt(255)],
                       imagem[p[1]][p[2]][p[3]]]],
               Div[One, FromInt(255)]]

\* C14, the part that holds: the channels that lie in [0, 1] are read back
\* within 1 / 255.
C14_IdaEVoltaNoIntervalo ==
    Salvou =>
        \A p \in Canais :
            (Ge[imagem[p[1]][p[2]][p[3]], Zero] /\ Le[imagem[p[1]][p[2]][p[3]], One])
            => Le[Abs[Sub[Div[FromInt(ByteDoCanal(p[1], p[2], p[3])), FromInt(255)],
                          imagem[p[1]][p[2]][p[3]]]],
                  Div[One, FromInt(255)]]

\* C14, the case that fails: a channel above 1 was written as 255.
C14_CanalAcimaDeUm ==
    /\ Salvou
    /\ \E p \in Canais :
          /\ Gt[imagem[p[1]][p[2]][p[3]], One]
          /\ ByteDoCanal(p[1], p[2], p[3]) = 255

\* C9: every channel of every pixel of the raster renderizar returned lies
\* in [0, 1], whatever the destination of the pixel's ray.
C9_CanaisEntreZeroEUm ==
    AposRenderizacao =>
        \A j \in 1..Len(imagem) : \A i \in 1..Len(imagem[j]) : \A k \in 1..3 :
            Ge[imagem[j][i][k], Zero] /\ Le[imagem[j][i][k], One]

\* C9, the case that fails: a ray that ended on the disk left a channel
\* above 1 in the raster.
C9_DiscoAcimaDeUm ==
    /\ AposRenderizacao
    /\ \E j \in 1..Len(imagem) : \E i \in 1..Len(imagem[j]) :
          /\ RaioDe(ray_tracer_, i - 1, j - 1).destino = "DISCO"
          /\ \E k \in 1..3 : Gt[imagem[j][i][k], One]

\* The threads whose block [inicio, fim) holds row j, counted from 1.
DonasDaLinha(j) ==
    { t \in 1..Len(threads) : threads[t].inicio <= j - 1 /\ j - 1 < threads[t].fim }

\* C2: in every interleaving of the worker threads no pixel is written more
\* than once, a pixel is written only by the one thread whose block holds
\* its row, and when renderizar has returned every pixel was written
\* exactly once.
C2_CadaPixelUmaVez ==
    (EmRenderizacao \/ AposRenderizacao) =>
        \A j \in 1..Len(escritas) : \A i \in 1..Len(escritas[j]) :
            /\ Len(escritas[j][i]) <= 1
            /\ \A n \in 1..Len(escritas[j][i]) :
                  DonasDaLinha(j) = { escritas[j][i][n] }
            /\ AposRenderizacao => Len(escritas[j][i]) = 1

\* C2, witness: renderizar returned a raster whose pixels were written by
\* three different threads.
C2_EscritoPorTresThreads ==
    /\ AposRenderizacao
    /\ Cardinality({ escritas[j][i][1] :
                       j \in 1..Len(escritas), i \in 1..Len(escritas[1]) }) >= 3

\* C3: the raster renderizar returns is the raster of the same
\* configuration rendered by one thread, every pixel being the colour of
\* its own ray: it depends neither on the thread count nor on the
\* interleaving of the threads nor on the thread that traced the pixel.
C3_MesmoRaster ==
    AposRenderizacao =>
        imagem = RasterDe(inicializar([config_ EXCEPT !.num_threads = 1]))

\* C3, witness: a render by three threads returned a raster of pixels that
\* differ from each other.
C3_TresThreads ==
    /\ AposRenderizacao
    /\ ray_tracer_.num_threads_ = 3
    /\ \E j \in 1..Len(imagem) : imagem[j] # imagem[1]

\* The configurations C10 calls invalid: a width or a height that is not
\* positive, a mass that is not a finite positive number.
ConfiguracaoInvalida(cfg) ==
    \/ cfg.largura <= 0
    \/ cfg.altura <= 0
    \/ ~(IsFinite(cfg.massa_solar) /\ Gt[cfg.massa_solar, Zero])

\* C10: a run with an invalid configuration traces no ray and writes no
\* file, and ends with a message on the error stream and a status that is
\* not 0.
C10_ConfiguracaoInvalidaFalha ==
    ConfiguracaoInvalida(config_) =>
        /\ \A t \in 1..Len(threads) : threads[t].pc # "raio"
        /\ ~arquivo.aberto
        /\ pc = "fim" => (retorno # 0 /\ cerr # << >>)

\* C10, the case that fails: a run with an invalid configuration traced
\* its rays, wrote the file and ended with status 0 and no message.
C10_InvalidaRenderizou ==
    /\ ConfiguracaoInvalida(config_)
    /\ pc = "fim"
    /\ retorno = 0
    /\ arquivo.aberto
    /\ cerr = << >>
    /\ \E j \in 1..Len(escritas) : \E i \in 1..Len(escritas[j]) :
          Len(escritas[j][i]) = 1

(***************************************************************************)
(* The loop of RayTracer::renderizar that divides the rows among the       *)
(* threads (lines 326-332), for sampled heights and thread counts: amostra *)
(* is the height, the thread count and the blocks << inicio, fim >> of the *)
(* threads created so far.                                                 *)
(***************************************************************************)
MaxAltura == 8
MaxThreads == 8

\* n is the argument of set_threads, of either sign; num_threads_ is the
\* field set_threads leaves in the ray tracer.
InitParticao ==
    /\ \E altura \in 1..MaxAltura, n \in (-MaxThreads)..MaxThreads :
          amostra = [ altura |-> altura, n |-> n,
                      num_threads_ |->
                          set_threads(RayTracer(MassaPadrao, TaxaPadrao), n).num_threads_,
                      blocos |-> << >> ]
    /\ SemSimulador
    /\ RaioParado

\* One iteration of the loop: the block of thread t = Len(blocos).
CriaBloco ==
    /\ Len(amostra.blocos) < amostra.num_threads_
    /\ amostra' =
          [amostra EXCEPT !.blocos =
              Append(@, << InicioDoBloco(Len(amostra.blocos),
                                         LinhasPorThread(amostra.altura,
                                                         amostra.num_threads_)),
                           FimDoBloco(Len(amostra.blocos), amostra.num_threads_,
                                      amostra.altura,
                                      LinhasPorThread(amostra.altura,
                                                      amostra.num_threads_)) >>)]
    /\ UNCHANGED varsSimulador
    /\ UNCHANGED varsRaio

NextParticao == CriaBloco
SpecParticao == InitParticao /\ [][NextParticao]_vars

\* The rows processar_bloco(inicio, fim) processes.
LinhasDoBloco(bloco) == { j \in 0..(MaxAltura + MaxThreads) : bloco[1] <= j /\ j < bloco[2] }
Piso(altura, n) == CHOOSE q \in 0..altura : q * n <= altura /\ altura < (q + 1) * n

\* C1: thread t (0 <= t < T) is given the rows [t * floor(H / T),
\* (t + 1) * floor(H / T)), the last thread the rows [(T - 1) * floor(H / T),
\* H); the row sets of the threads are pairwise disjoint and, once all T
\* threads are created, their union is {0, ..., H - 1}.
C1_Particao ==
    /\ \A t \in 1..Len(amostra.blocos) :
          /\ amostra.blocos[t][1] = (t - 1) * Piso(amostra.altura, amostra.num_threads_)
          /\ amostra.blocos[t][2] =
                IF t = amostra.num_threads_ THEN amostra.altura
                ELSE t * Piso(amostra.altura, amostra.num_threads_)
          /\ amostra.blocos[t][1] <= amostra.blocos[t][2]
    /\ \A t, u \in 1..Len(amostra.blocos) :
          t # u => LinhasDoBloco(amostra.blocos[t]) \cap
                       LinhasDoBloco(amostra.blocos[u]) = {}
    /\ Len(amostra.blocos) = amostra.num_threads_ =>
          UNION { LinhasDoBloco(amostra.blocos[t]) : t \in 1..Len(amostra.blocos) }
              = 0..(amostra.altura - 1)

\* C1, witness: all threads are created, there are more threads than rows
\* and the last thread has every row.
C1_MaisThreadsQueLinhas ==
    /\ Len(amostra.blocos) = amostra.num_threads_
    /\ amostra.num_threads_ > amostra.altura
    /\ LinhasDoBloco(amostra.blocos[amostra.num_threads_]) = 0..(amostra.altura - 1)

\* C1, witness of the other case: the thread count does not divide the
\* height and the last thread has more rows than the others.
C1_UltimaAbsorveOResto ==
    /\ Len(amostra.blocos) = amostra.num_threads_
    /\ amostra.num_threads_ > 1
    /\ amostra.num_threads_ < amostra.altura
    /\ Cardinality(LinhasDoBloco(amostra.blocos[amostra.num_threads_]))
          > Cardinality(LinhasDoBloco(amostra.blocos[1]))

(***************************************************************************)
(* The polar reflection of tracar_raio (lines 232-240) applied to sampled  *)
(* states: amostra is the state after the RK4 step and, once the two tests *)
(* were applied, the state after them.                                     *)
(***************************************************************************)
ThetasDeAmostra ==
    { Zero, Dec(1, -3), One, MPI2, FromInt(3), MPI, Dec(-1, -3), Neg[One],
      FromInt(-3), Neg[MPI], Dec(-315, -2), FromInt(-4), FromInt(-6),
      Neg[DoisPI], FromInt(-7), FromInt(-100), Dec(315, -2), FromInt(4),
      FromInt(6), DoisPI, FromInt(7), FromInt(100), Dec(-482415024, 1),
      Dec(482415024, 1) }
UThetasDeAmostra == { Neg[One], Dec(-25, -1), Dec(1, -3), One, Dec(407, 22) }

ChamadaDeReflexao(theta, u_theta) ==
    [ entrada |-> << Zero, FromInt(5), theta, Zero, One, Neg[One], u_theta, Zero >>,
      retornou |-> FALSE,
      saida |-> << Zero, Zero, Zero, Zero, Zero, Zero, Zero, Zero >> ]

InitReflexao ==
    /\ amostra \in { ChamadaDeReflexao(theta, u_theta) :
                       theta \in ThetasDeAmostra, u_theta \in UThetasDeAmostra }
    /\ SemSimulador
    /\ RaioParado

AplicaReflexao ==
    /\ ~amostra.retornou
    /\ amostra' = [amostra EXCEPT !.retornou = TRUE,
                                  !.saida = Reflexao(amostra.entrada)]
    /\ UNCHANGED varsSimulador
    /\ UNCHANGED varsRaio

NextReflexao == AplicaReflexao
SpecReflexao == InitReflexao /\ [][NextReflexao]_vars

EmZeroPi(theta) == Ge[theta, Zero] /\ Le[theta, MPI]
SinalTrocado == amostra.saida[7] = Neg[amostra.entrada[7]]

\* C8: the reflection maps every theta to a theta in [0, pi], and the sign
\* of u_theta is flipped if and only if a reflection occurred, that is if
\* the input theta was outside [0, pi].
C8_ReflexaoEmZeroPi ==
    amostra.retornou =>
        /\ EmZeroPi(amostra.saida[3])
        /\ SinalTrocado <=> ~EmZeroPi(amostra.entrada[3])

\* C8, the part that holds: for an input theta in [-pi, 2 pi] the output is
\* in [0, pi] and the sign of u_theta is flipped if and only if the input
\* was outside [0, pi]; no other component of the state changes.
C8_ReflexaoPertoDoIntervalo ==
    amostra.retornou =>
        /\ \A k \in { 1, 2, 4, 5, 6, 8 } : amostra.saida[k] = amostra.entrada[k]
        /\ (Ge[amostra.entrada[3], Neg[MPI]] /\ Le[amostra.entrada[3], DoisPI]) =>
              /\ EmZeroPi(amostra.saida[3])
              /\ SinalTrocado <=> ~EmZeroPi(amostra.entrada[3])

\* C8, the cases that fail: an input above 2 pi leaves theta negative; an
\* input below -pi is reflected twice and keeps the sign of u_theta.
C8_ThetaForaDoIntervalo ==
    /\ amostra.retornou
    /\ Gt[amostra.entrada[3], DoisPI]
    /\ Lt[amostra.saida[3], Zero]
C8_DuasReflexoes ==
    /\ amostra.retornou
    /\ Lt[amostra.entrada[3], Neg[MPI]]
    /\ EmZeroPi(amostra.saida[3])
    /\ amostra.saida[7] = amostra.entrada[7]

(***************************************************************************)
(* The loop of tracar_raio: order of the termination tests, the bound on   *)
(* the number of steps, and where the rays of the sampled cameras end.     *)
(***************************************************************************)
RetornaSemIntegrar(destino) ==
    /\ pc_raio' = "retornou"
    /\ traco' = traco
    /\ resultado'.destino = destino
    /\ resultado'.passos = traco.i

\* C4: in every iteration of the loop the tests are made on the current
\* state in the order horizon, disk, escape, and the call returns at the
\* first that holds without a further RK4 step: horizon gives HORIZONTE and
\* black, disk and escape together give DISCO, a step is integrated only
\* when none holds, and nothing is integrated after the return.
C4_OrdemDosEventos ==
    [][ /\ pc_raio = "loop"
        /\ traco.i < max_passos_ =>
             /\ AtingiuHorizonte(ray_tracer_, traco.estado) =>
                  /\ RetornaSemIntegrar("HORIZONTE")
                  /\ resultado'.cor = Pixel(Zero, Zero, Zero)
             /\ ( /\ ~AtingiuHorizonte(ray_tracer_, traco.estado)
                  /\ AtingiuDisco(ray_tracer_, traco.estado) ) =>
                  RetornaSemIntegrar("DISCO")
             /\ ( /\ ~AtingiuHorizonte(ray_tracer_, traco.estado)
                  /\ ~AtingiuDisco(ray_tracer_, traco.estado)
                  /\ Escapou(ray_tracer_, traco.estado) ) =>
                  RetornaSemIntegrar("INFINITO")
             /\ ~Terminou(ray_tracer_, traco.estado) =>
                  /\ pc_raio' = "loop"
                  /\ traco'.rk4 = traco.rk4 + 1
                  /\ traco'.i = traco.i + 1 ]_<< pc_raio, traco >>

\* C4 witness: after at least one step the state is in the disk and beyond
\* the escape radius, and the call returned DISCO.
C4_DiscoAntesDoEscape ==
    /\ pc_raio = "retornou"
    /\ traco.rk4 > 0
    /\ AtingiuDisco(ray_tracer_, traco.estado)
    /\ Escapou(ray_tracer_, traco.estado)
    /\ resultado.destino = "DISCO"

Esgotou == traco.i = max_passos_

\* C5: a call of tracar_raio takes at most max_passos_ = 10000 RK4 steps:
\* every step of the loop either returns or is one more RK4 step, and the
\* number of RK4 steps never exceeds max_passos_.  When the loop ran all
\* its iterations without an event the result is ERRO with the colour
\* (1, 0, 1), and otherwise it is not ERRO.
C5_TerminaEmNMax ==
    /\ [](pc_raio \in {"loop", "retornou"} =>
            /\ traco.rk4 <= max_passos_
            /\ traco.rk4 = traco.i)
    /\ [][ /\ pc_raio = "loop"
           /\ \/ pc_raio' = "retornou" /\ traco' = traco
              \/ pc_raio' = "loop" /\ traco'.rk4 = traco.rk4 + 1
      ]_<< pc_raio, traco >>
    /\ [](pc_raio = "retornou" =>
            /\ Esgotou => /\ resultado.destino = "ERRO"
                          /\ resultado.cor = Magenta
            /\ ~Esgotou => /\ resultado.destino # "ERRO"
                           /\ Terminou(ray_tracer_, traco.estado))

\* C5 witness: a call that returned ERRO after 10000 steps that changed
\* the state.
C5_DezMilPassos ==
    /\ pc_raio = "retornou"
    /\ resultado.destino = "ERRO"
    /\ traco.rk4 = max_passos_
    /\ ~IsNaN(traco.estado[2])

\* The run configuration the specification calls well-posed: 10 solar
\* masses, observer at 100 r_s, inclination between 0 and 90 degrees.
InclinacaoValida(cfg) ==
    /\ Ge[cfg.angulo_inclinacao, Zero]
    /\ Le[cfg.angulo_inclinacao, FromInt(90)]
BemPosta(cfg) ==
    /\ cfg.massa_solar = MassaPadrao
    /\ cfg.distancia_observador = FromInt(100)
    /\ InclinacaoValida(cfg)

\* C6: on a well-posed configuration no ray ends in ERRO.
C6_SemErroBemPosto ==
    (pc_raio = "retornou" /\ BemPosta(config_)) =>
        /\ resultado.destino \in {"HORIZONTE", "DISCO", "INFINITO"}
        /\ resultado.cor # Magenta

\* C6: rays of well-posed configurations that do end in one of the three
\* events after integrating.
C6_BemPostoComEvento ==
    /\ pc_raio = "retornou" /\ BemPosta(config_)
    /\ traco.rk4 > 0
    /\ resultado.destino # "ERRO"

CameraValida(cfg) ==
    /\ Gt[cfg.distancia_observador, One]
    /\ InclinacaoValida(cfg)
Radial == traco.alfa = Zero /\ traco.beta = Zero

\* C7: the ray alfa = beta = 0 of a valid camera (observer beyond 1 r_s,
\* inclination between 0 and 90 degrees) returns HORIZONTE and black.
C7_RadialTerminaNoHorizonte ==
    (pc_raio = "retornou" /\ Radial /\ CameraValida(config_)) =>
        /\ resultado.destino = "HORIZONTE"
        /\ resultado.cor = Pixel(Zero, Zero, Zero)

\* C7: radial rays that do reach the horizon after integrating, and the
\* three other ends a radial ray of a valid camera has.
C7_RadialNoHorizonte ==
    /\ pc_raio = "retornou" /\ Radial /\ CameraValida(config_)
    /\ traco.rk4 > 0
    /\ resultado.destino = "HORIZONTE"
C7_RadialNoDisco ==
    /\ pc_raio = "retornou" /\ Radial /\ CameraValida(config_)
    /\ resultado.destino = "DISCO"
C7_RadialEsgotou ==
    /\ pc_raio = "retornou" /\ Radial /\ CameraValida(config_)
    /\ resultado.destino = "ERRO"
    /\ ~IsNaN(traco.estado[2])

(***************************************************************************)
(* MetricaSchwarzschild::derivadas_geodesica applied to sampled states on  *)
(* both sides of the horizon: amostra is the metric, the state and, once   *)
(* the call returned, the eight derivatives.                               *)
(***************************************************************************)
MetricasDeAmostra ==
    { MetricaSchwarzschild(MassaPadrao), MetricaSchwarzschild(MassaPequena) }
\* The radius as a multiple of rs: zero, inside, on and outside the horizon,
\* and a negative radius, which an RK4 stage can produce.
FracoesDoHorizonte ==
    { Zero, Dec(1, -3), Half, Dec(999999, -6), One, Dec(1000001, -6), Two,
      Neg[One] }
AngulosDeAmostra == { Zero, Dec(1, -3), One, MPI2, MPI }
VelocidadesDeAmostra ==
    { << One, Neg[One], Zero, Zero >>,
      << Dec(15, -1), Neg[One], Dec(1, -1), Dec(2, -1) >>,
      << One, Half, Dec(-3, -1), Dec(1, -2) >> }

ChamadaDeDerivadas(rs, fracao, theta, u) ==
    [ rs |-> rs,
      entrada |-> << Zero, Mul[rs, fracao], theta, Zero, u[1], u[2], u[3], u[4] >>,
      retornou |-> FALSE,
      saida |-> << Zero, Zero, Zero, Zero, Zero, Zero, Zero, Zero >> ]

InitMetrica ==
    /\ amostra \in { ChamadaDeDerivadas(rs, fracao, theta, u) :
                       rs \in MetricasDeAmostra, fracao \in FracoesDoHorizonte,
                       theta \in AngulosDeAmostra, u \in VelocidadesDeAmostra }
    /\ SemSimulador
    /\ RaioParado

RetornaDerivadas ==
    /\ ~amostra.retornou
    /\ amostra' = [amostra EXCEPT
                      !.retornou = TRUE,
                      !.saida = derivadas_geodesica(amostra.rs, amostra.entrada)]
    /\ UNCHANGED varsSimulador
    /\ UNCHANGED varsRaio

NextMetrica == RetornaDerivadas
SpecMetrica == InitMetrica /\ [][NextMetrica]_vars

DentroDoHorizonte == Le[amostra.entrada[2], amostra.rs]
AceleracoesFinitas == \A k \in 5..8 : IsFinite(amostra.saida[k])
ChristoffelsDoEstado(rs, r, theta) ==
    << christoffel_t_tr(rs, r), christoffel_r_tt(rs, r), christoffel_r_rr(rs, r),
       christoffel_r_theta_theta(rs, r), christoffel_r_phi_phi(rs, r, theta),
       christoffel_theta_r_theta(r), christoffel_theta_phi_phi(theta),
       christoffel_phi_r_phi(r), christoffel_phi_theta_phi(theta) >>
ChristoffelsDaAmostra ==
    ChristoffelsDoEstado(amostra.rs, amostra.entrada[2], amostra.entrada[3])

\* C21: for a state with r <= rs no Christoffel symbol is infinite (those
\* that diverge return 0) and derivadas_geodesica returns finite
\* accelerations.
C21_AceleracoesFinitasNoHorizonte ==
    (amostra.retornou /\ DentroDoHorizonte) =>
        /\ \A k \in 1..9 : IsFinite(ChristoffelsDaAmostra[k])
        /\ AceleracoesFinitas

\* C21, the part that holds: for r <= rs the three symbols with the factor
\* (r - rs) or 1 / (r - rs) return 0, and the accelerations are finite
\* when r is not 0 and tan(theta) is not 0; the call returns its eight
\* derivatives in every case, the first four being the velocities.
C21_GuardasDoHorizonte ==
    amostra.retornou =>
        /\ \A k \in 1..4 : amostra.saida[k] = amostra.entrada[k + 4]
        /\ DentroDoHorizonte =>
             /\ \A k \in 1..3 : ChristoffelsDaAmostra[k] = Zero
             /\ ( /\ ~IsZero(amostra.entrada[2])
                  /\ ~IsZero(Tan[amostra.entrada[3]]) ) => AceleracoesFinitas

\* C21, the states that fail: r = 0, where 1 / r is infinite, and theta = 0
\* with 0 < r <= rs, where 1 / tan(theta) is infinite.
C21_RaioNulo ==
    /\ amostra.retornou
    /\ IsZero(amostra.entrada[2])
    /\ IsInf(christoffel_theta_r_theta(amostra.entrada[2]))
    /\ ~AceleracoesFinitas
C21_SobreOEixo ==
    /\ amostra.retornou /\ DentroDoHorizonte
    /\ Gt[amostra.entrada[2], Zero]
    /\ IsZero(amostra.entrada[3])
    /\ IsInf(christoffel_phi_theta_phi(amostra.entrada[3]))
    /\ ~AceleracoesFinitas

\* Scenario 1 of the specification: 10 solar masses, a 1 x 1 image, fov 45
\* degrees, the observer at 100 r_s, inclination 0.
Cenario1(cfg) ==
    /\ cfg.massa_solar = MassaPadrao
    /\ cfg.largura = 1 /\ cfg.altura = 1
    /\ cfg.fov = FovPadrao
    /\ cfg.distancia_observador = FromInt(100)
    /\ cfg.angulo_inclinacao = Zero

\* C22: in scenario 1 the single pixel of the rendered raster is black,
\* its ray ending in the horizon.
C22_PixelCentralPreto ==
    (AposRenderizacao /\ Cenario1(config_)) =>
        /\ imagem[1][1] = Pixel(Zero, Zero, Zero)
        /\ RaioDe(ray_tracer_, 0, 0).destino = "HORIZONTE"

\* C22, what the code does: the ray of the pixel is not the central ray
\* (alfa is not 0), it ends on the disk without a step, and the pixel has
\* the colour of the disk.
C22_PixelNoDisco ==
    /\ AposRenderizacao /\ Cenario1(config_)
    /\ AlfaDoPixel(ray_tracer_, 0) # Zero
    /\ RaioDe(ray_tracer_, 0, 0).destino = "DISCO"
    /\ RaioDe(ray_tracer_, 0, 0).passos = 0
    /\ imagem[1][1] = RaioDe(ray_tracer_, 0, 0).cor
    /\ \E k \in 1..3 : Gt[imagem[1][1][k], Zero]

AjudaImpressa == \E k \in 1..Len(cout) : cout[k] = Ajuda
SemRaiosNemArquivo ==
    /\ imagem = << >> /\ escritas = << >> /\ threads = << >>
    /\ linhas_processadas_ = 0
    /\ arquivo = ArquivoVazio
ForaOMenu(texto) == texto # "menu"

C23_AjudaAposAnalise ==
    /\ pc = "fim" /\ apenas_analise /\ AjudaImpressa
    /\ retorno = 0
C23_OpcaoDesconhecida ==
    /\ pc = "fim" /\ apenas_analise /\ AjudaImpressa
    /\ retorno = 1

\* C24: for a camera with theta_observador in [0, pi], the state the
\* termination tests of an iteration examine has theta in [0, pi].
C24_ThetaNoIntervalo ==
    (pc_raio = "loop" /\ EmZeroPi(ray_tracer_.camera_.theta_observador)) =>
        EmZeroPi(traco.estado[3])

\* C24, the states that fail: after an RK4 step that moved theta by more
\* than pi beyond the interval, the state the next iteration examines has a
\* finite theta outside [0, pi].
C24_ThetaForaNoLoop ==
    /\ pc_raio = "loop" /\ EmZeroPi(ray_tracer_.camera_.theta_observador)
    /\ traco.rk4 > 0
    /\ IsFinite(traco.estado[3])
    /\ ~EmZeroPi(traco.estado[3])

\* C24, the part that holds: the initial state has theta = theta_observador,
\* and a step that leaves theta within [-pi, 2 pi] is followed by a state
\* with theta in [0, pi].
C24_UmaReflexaoBasta ==
    [][ ( /\ pc_raio = "loop" /\ pc_raio' = "loop"
          /\ Ge[passo_rk4(ray_tracer_.rs_, traco'.passo_, traco.estado)[3], Neg[MPI]]
          /\ Le[passo_rk4(ray_tracer_.rs_, traco'.passo_, traco.estado)[3], DoisPI] )
        => EmZeroPi(traco'.estado[3]) ]_<< pc_raio, traco >>


(***************************************************************************)
(* IntegradorGeodesico::integrar, part_003 lines 84-110, one action per    *)
(* way through the while loop.  amostra is the integrator (metric, passo_, *)
(* r_min_), the arguments and the locals of the call.  A PontoTrajetoria   *)
(* is the tuple <<lambda, t, r, theta, phi, x, y, z>>.                     *)
(***************************************************************************)
IntegradorGeodesico(rs, passo) ==
    [ metrica_ |-> rs, passo_ |-> passo, r_min_ |-> Mul[rs, Dec(1001, -3)] ]

foton_inicial(rs, r, theta, phi, direcao_r, direcao_theta, direcao_phi) ==
    << Zero, r, theta, phi, Div[One, Sub[One, Div[rs, r]]],
       direcao_r, direcao_theta, direcao_phi >>

PontoTrajetoria(lambda, e) ==
    << lambda, e[1], e[2], e[3], e[4],
       Mul[Mul[e[2], Sin[e[3]]], Cos[e[4]]],
       Mul[Mul[e[2], Sin[e[3]]], Sin[e[4]]],
       Mul[e[2], Cos[e[3]]] >>

\* trajetoria.size() < max_pontos compares a size_t with an int: the int is
\* converted to unsigned, so a negative max_pontos is above every size.
CabeMaisUmPonto(tamanho, max_pontos) ==
    max_pontos < 0 \/ tamanho < max_pontos

ChamadaDeIntegrar(integrador, inicial, lambda_max, max_pontos) ==
    [ integrador |-> integrador, lambda_max |-> lambda_max,
      max_pontos |-> max_pontos, estado |-> inicial, lambda |-> Zero,
      trajetoria |-> << >>, passos |-> 0, pc |-> "loop" ]

\* Line 92.
ContinuaIntegrar(am) ==
    /\ Lt[am.lambda, am.lambda_max]
    /\ CabeMaisUmPonto(Len(am.trajetoria), am.max_pontos)
\* Line 94.
CaiuNoHorizonte(am) == Lt[am.estado[2], am.integrador.r_min_]

\* Lines 96-105: the point is recorded, then one step is taken from it.
RegistraEAvanca(am) ==
    [am EXCEPT
       !.trajetoria = Append(am.trajetoria, PontoTrajetoria(am.lambda, am.estado)),
       !.estado = passo_rk4(am.integrador.metrica_, am.integrador.passo_, am.estado),
       !.lambda = Add[am.lambda, am.integrador.passo_],
       !.passos = am.passos + 1]

IntegrarAvanca ==
    /\ amostra.pc = "loop"
    /\ ContinuaIntegrar(amostra)
    /\ ~CaiuNoHorizonte(amostra)
    /\ amostra' = RegistraEAvanca(amostra)
    /\ UNCHANGED varsSimulador
    /\ UNCHANGED varsRaio

IntegrarInterrompe ==
    /\ amostra.pc = "loop"
    /\ ContinuaIntegrar(amostra)
    /\ CaiuNoHorizonte(amostra)
    /\ amostra' = [amostra EXCEPT !.pc = "retornou"]
    /\ UNCHANGED varsSimulador
    /\ UNCHANGED varsRaio

IntegrarRetorna ==
    /\ amostra.pc = "loop"
    /\ ~ContinuaIntegrar(amostra)
    /\ amostra' = [amostra EXCEPT !.pc = "retornou"]
    /\ UNCHANGED varsSimulador
    /\ UNCHANGED varsRaio

\* The calls: a metric with rs near one metre, photons falling radially
\* from 1.5 rs, starting inside 1.001 rs, circling at 3 rs, and leaving the
\* polar axis with an azimuthal velocity.
MetricaDeIntegrar == MetricaSchwarzschild(MassaPequena)
FotonsDeIntegrar ==
    { foton_inicial(MetricaDeIntegrar, Mul[Dec(15, -1), MetricaDeIntegrar],
                    MPI2, Zero, Neg[One], Zero, Zero),
      foton_inicial(MetricaDeIntegrar, Mul[Dec(10005, -4), MetricaDeIntegrar],
                    MPI2, Zero, Neg[One], Zero, Zero),
      foton_inicial(MetricaDeIntegrar, Mul[FromInt(3), MetricaDeIntegrar],
                    MPI2, Zero, Zero, Zero, Dec(2, -1)),
      foton_inicial(MetricaDeIntegrar, Mul[Two, MetricaDeIntegrar],
                    Zero, Zero, Zero, Zero, Dec(1, -1)) }
PassosDeIntegrar == { Dec(1, -2), Dec(1, -1), Dec(25, -2) }
LambdasDeIntegrar == { Zero, Half, Two }
PontosDeIntegrar == { -1, 0, 3, 10000 }

InitIntegrar ==
    /\ amostra \in { ChamadaDeIntegrar(IntegradorGeodesico(MetricaDeIntegrar, passo),
                                       inicial, lambda_max, max_pontos) :
                       passo \in PassosDeIntegrar, inicial \in FotonsDeIntegrar,
                       lambda_max \in LambdasDeIntegrar,
                       max_pontos \in PontosDeIntegrar }
    /\ SemSimulador
    /\ RaioParado

NextIntegrar == IntegrarAvanca \/ IntegrarInterrompe \/ IntegrarRetorna
SpecIntegrar == InitIntegrar /\ [][NextIntegrar]_vars

ForaDoHorizonte(r_min, r) == Ge[r, r_min]
LambdaDoPonto(k) ==
    Mul[FromInt(k), amostra.integrador.passo_]
PertoDe(a, b) ==
    Le[Abs[Sub[a, b]], Mul[Dec(1, -5), Abs[b]]]

\* C25: passo_rk4 is applied only to states with r >= 1.001 rs; integrar
\* stops at the first state with r < 1.001 rs, records only points with
\* r >= 1.001 rs, records at most max_pontos points, and the k-th recorded
\* point (k from 0) has lambda equal to k times the step.
C25_SoAvancaForaDoHorizonte ==
    /\ [][ amostra'.passos > amostra.passos =>
             ForaDoHorizonte(amostra.integrador.r_min_, amostra.estado[2]) ]_amostra
    /\ [](\A k \in 1..Len(amostra.trajetoria) :
             /\ ForaDoHorizonte(amostra.integrador.r_min_, amostra.trajetoria[k][3])
             /\ PertoDe(amostra.trajetoria[k][1], LambdaDoPonto(k - 1)))
    /\ [](Len(amostra.trajetoria) <=
             IF amostra.max_pontos < 0 THEN 0 ELSE amostra.max_pontos)
    /\ [][ CaiuNoHorizonte(amostra) => amostra'.pc = "retornou" ]_amostra

\* C25, what the loop does guarantee: no step is taken from a state with
\* r < 1.001 rs and no such state is recorded, the first such state ends
\* the call, a non-negative max_pontos bounds the number of points, and the
\* k-th point's lambda is the sum of k steps.
C25_NuncaAvancaCapturado ==
    /\ [][ amostra'.passos > amostra.passos =>
             ~CaiuNoHorizonte(amostra) ]_amostra
    /\ [](\A k \in 1..Len(amostra.trajetoria) :
             /\ ~Lt[amostra.trajetoria[k][3], amostra.integrador.r_min_]
             /\ PertoDe(amostra.trajetoria[k][1], LambdaDoPonto(k - 1)))
    /\ [](amostra.max_pontos >= 0 =>
             Len(amostra.trajetoria) <= amostra.max_pontos)
    /\ [](Len(amostra.trajetoria) = amostra.passos)
    /\ [][ CaiuNoHorizonte(amostra) =>
             amostra'.pc = "retornou" /\ amostra'.trajetoria = amostra.trajetoria ]_amostra

\* C25, the states that fail: a step taken from a state whose r is NaN,
\* which is not below r_min_, and a call with a negative max_pontos that
\* recorded points.
C25_AvancaDeNaN ==
    /\ amostra.pc = "loop"
    /\ amostra.passos > 1
    /\ IsNaN(amostra.trajetoria[Len(amostra.trajetoria)][3])
C25_MaxPontosNegativo ==
    /\ amostra.max_pontos < 0
    /\ Len(amostra.trajetoria) > 0
C25_ParouNoHorizonte ==
    /\ amostra.pc = "retornou"
    /\ amostra.passos > 0
    /\ CaiuNoHorizonte(amostra)
    /\ ContinuaIntegrar(amostra)

\* C25 in RayTracer::tracar_raio: a step is never taken from a state with
\* r < 1.001 rs, yet it is taken from the NaN state of the ray of
\* inclination 90.
C25_TracadorSoAvancaForaDoHorizonte ==
    [][ traco'.rk4 > traco.rk4 =>
          ForaDoHorizonte(Mul[ray_tracer_.rs_, tolerancia_horizonte_],
                          traco.estado[2]) ]_<< pc_raio, traco >>
C25_TracadorNuncaAvancaCapturado ==
    [][ traco'.rk4 > traco.rk4 =>
          ~AtingiuHorizonte(ray_tracer_, traco.estado) ]_<< pc_raio, traco >>


\* C26: every iteration of tracar_raio that takes a step sets the step size
\* to passo_inicial_ * sqrt(r / rs) of the state before the step, and
\* passo_rk4 integrates that state with that step size.
C26_PassoDoEstadoAnterior ==
    [][ traco'.rk4 > traco.rk4 =>
          /\ passo_inicial_ = Dec(1, -1)
          /\ traco'.passo_ =
                Mul[passo_inicial_, Sqrt[Div[traco.estado[2], ray_tracer_.rs_]]]
          /\ traco'.estado =
                Reflexao(passo_rk4(ray_tracer_.rs_, traco'.passo_, traco.estado))
          /\ traco'.rk4 = traco.rk4 + 1 ]_<< pc_raio, traco >>

\* C26, its case: a step was taken, and the step the next iteration takes
\* has a different size.
C26_PassoMudou ==
    /\ pc_raio = "loop"
    /\ traco.rk4 >= 2
    /\ traco.i < max_passos_
    /\ ~Terminou(ray_tracer_, traco.estado)
    /\ IsFinite(traco.passo_)
    /\ IsFinite(PassoAdaptativo(ray_tracer_, traco.estado))
    /\ traco.passo_ # PassoAdaptativo(ray_tracer_, traco.estado)


CamposPadrao(cfg) ==
    [cfg EXCEPT !.tipo = "SCHWARZSCHILD", !.spin = Zero, !.incluir_disco = TRUE,
                !.passo_integracao = Dec(1, -1), !.max_passos = 10000]
CamposAlterados(cfg) ==
    /\ cfg.tipo = "KERR" /\ cfg.spin # Zero /\ ~cfg.incluir_disco
    /\ cfg.passo_integracao # passo_inicial_ /\ cfg.max_passos # max_passos_

C29_PeloMenosUmaThread ==
    /\ amostra.num_threads_ = (IF amostra.n >= 1 THEN amostra.n ELSE 1)
    /\ amostra.num_threads_ >= 1
    /\ Len(amostra.blocos) <= amostra.num_threads_
    /\ (Len(amostra.blocos) = amostra.num_threads_
          /\ amostra.num_threads_ > amostra.altura) =>
          /\ \A t \in 1..(amostra.num_threads_ - 1) :
                LinhasDoBloco(amostra.blocos[t]) = { }
          /\ LinhasDoBloco(amostra.blocos[amostra.num_threads_]) =
                0..(amostra.altura - 1)

\* C29, its cases: every thread was created with more threads than rows;
\* and set_threads was given 0 or a negative count and one thread was
\* created, with every row.
C29_MaisThreadsQueLinhas ==
    /\ amostra.num_threads_ > 2
    /\ amostra.num_threads_ > amostra.altura
    /\ Len(amostra.blocos) = amostra.num_threads_
    /\ LinhasDoBloco(amostra.blocos[1]) = { }
C29_PedidoNaoPositivo ==
    /\ amostra.n < 0
    /\ amostra.num_threads_ = 1
    /\ amostra.blocos = << << 0, amostra.altura >> >>


(***************************************************************************)
(* The three tests of one iteration of RayTracer::tracar_raio, lines       *)
(* 187-222, applied to sampled states of ray tracers built by inicializar. *)
(* amostra is the ray tracer, the state and, once tested, the outcome of   *)
(* each test and the destination returned.                                 *)
(***************************************************************************)
\* r as a multiple of rs_, around 1.001, 3 and 500; the observer's distance
\* in rs, around 250; theta inside and outside the slab of the disk.
RaiosDeTeste ==
    { Zero, Half, One, Dec(10009, -4), Dec(10011, -4), Two, Dec(2999, -3),
      Dec(3001, -3), FromInt(100), FromInt(499), FromInt(500), FromInt(501),
      FromInt(1000) }
DistanciasDeTeste ==
    { FromInt(2), FromInt(100), FromInt(249), FromInt(250), FromInt(251) }
ThetasDeTeste == { MPI2, Add[MPI2, Dec(5, -3)], Add[MPI2, Dec(2, -2)], Zero }
MassasDeTeste == { MassaPadrao, MassaPequena, Neg[MassaPadrao] }

EstadoDeTeste(rt, fracao, theta) ==
    << Zero, Mul[fracao, rt.rs_], theta, Zero, One, Neg[One], Zero, Zero >>
ChamadaDeTeste(rt, fracao, theta) ==
    [ rt |-> rt, estado |-> EstadoDeTeste(rt, fracao, theta),
      testado |-> FALSE, horizonte |-> FALSE, disco |-> FALSE,
      escapou |-> FALSE, destino |-> Nenhum ]

InitTestes ==
    /\ amostra \in
          { ChamadaDeTeste(inicializar(ConfiguracaoSimulacao(massa, TaxaPadrao,
                               2, 2, distancia, FromInt(75), FovPadrao, 1)),
                           fracao, theta) :
              massa \in MassasDeTeste, distancia \in DistanciasDeTeste,
              fracao \in RaiosDeTeste, theta \in ThetasDeTeste }
    /\ SemSimulador
    /\ RaioParado

\* Lines 187-222: the three conditions, and the destination of the first
\* that holds.
TestaEstado ==
    /\ ~amostra.testado
    /\ amostra' =
          [amostra EXCEPT
             !.testado = TRUE,
             !.horizonte = AtingiuHorizonte(amostra.rt, amostra.estado),
             !.disco = AtingiuDisco(amostra.rt, amostra.estado),
             !.escapou = Escapou(amostra.rt, amostra.estado),
             !.destino =
                 IF Terminou(amostra.rt, amostra.estado)
                 THEN ResultadoIteracao(amostra.rt, amostra.estado, 0).destino
                 ELSE Nenhum]
    /\ UNCHANGED varsSimulador
    /\ UNCHANGED varsRaio

NextTestes == TestaEstado
SpecTestes == InitTestes /\ [][NextTestes]_vars

ObservadorPerto(rt) ==
    Lt[rt.camera_.r_observador, Mul[FromInt(250), rt.rs_]]
NaBordaDoDisco(rt) ==
    << Zero, rt.disco_.raio_externo_, MPI2, Zero, One, Neg[One], Zero, Zero >>

\* C30: the disk of the ray tracer has raio_interno_ = 3 rs and
\* raio_externo_ = 500 rs; no state satisfies both the horizon test and the
\* radius test of the disk; and for an observer with r_obs < 250 rs there
\* is a state, the outer edge of the disk, that satisfies both the disk
\* test and the escape test.
C30_HorizonteExcluiDisco ==
    /\ amostra.rt.disco_.raio_interno_ = Mul[FromInt(3), amostra.rt.rs_]
    /\ amostra.rt.disco_.raio_externo_ = Mul[FromInt(500), amostra.rt.rs_]
    /\ ~( /\ Lt[amostra.estado[2], Mul[amostra.rt.rs_, Dec(1001, -3)]]
          /\ no_disco(amostra.rt.disco_, amostra.estado[2]) )
    /\ amostra.testado => ~(amostra.horizonte /\ amostra.disco)
    /\ ObservadorPerto(amostra.rt) =>
          /\ AtingiuDisco(amostra.rt, NaBordaDoDisco(amostra.rt))
          /\ Escapou(amostra.rt, NaBordaDoDisco(amostra.rt))

\* C30, what holds: the two radii of the disk and the exclusion for every
\* ray tracer, and the common state of disk and escape for every ray
\* tracer of a positive mass.
C30_HorizonteExcluiDiscoComMassaPositiva ==
    /\ amostra.rt.disco_.raio_interno_ = Mul[FromInt(3), amostra.rt.rs_]
    /\ amostra.rt.disco_.raio_externo_ = Mul[FromInt(500), amostra.rt.rs_]
    /\ ~( /\ Lt[amostra.estado[2], Mul[amostra.rt.rs_, Dec(1001, -3)]]
          /\ no_disco(amostra.rt.disco_, amostra.estado[2]) )
    /\ amostra.testado => ~(amostra.horizonte /\ amostra.disco)
    /\ (ObservadorPerto(amostra.rt) /\ Gt[amostra.rt.rs_, Zero]) =>
          /\ AtingiuDisco(amostra.rt, NaBordaDoDisco(amostra.rt))
          /\ Escapou(amostra.rt, NaBordaDoDisco(amostra.rt))
\* C30, the ray tracer that fails: rs_ < 0 and the observer at 251 rs_,
\* which is below 250 rs_, with a disk that holds no radius.
C30_MassaNegativa ==
    /\ Lt[amostra.rt.rs_, Zero]
    /\ ObservadorPerto(amostra.rt)
    /\ Gt[amostra.rt.disco_.raio_interno_, amostra.rt.disco_.raio_externo_]
    /\ amostra.testado /\ ~amostra.disco

\* C30, its case: a tested state inside the disk and beyond twice the
\* observer's radius, for an observer at 249 rs; the disk is returned.
C30_DiscoEEscape ==
    /\ amostra.testado
    /\ amostra.disco /\ amostra.escapou /\ ~amostra.horizonte
    /\ amostra.rt.camera_.r_observador = Mul[FromInt(249), amostra.rt.rs_]
    /\ amostra.destino = "DISCO"
\* With the observer at 250 rs or beyond no tested state is in both.
C30_ObservadorLonge ==
    (amostra.testado /\ ~ObservadorPerto(amostra.rt)) =>
        ~(amostra.disco /\ amostra.escapou)
C30_NoHorizonte ==
    /\ amostra.testado /\ amostra.horizonte /\ ~amostra.disco
    /\ amostra.destino = "HORIZONTE"
=============================================================================
